---- MODULE Spec2Model ----
(***************************************************************************)
(* Model of the scaffolder service (scaffolder-service/server.js): the     *)
(* scaffold, deploy-stream and cleanup request handlers, together with the *)
(* three backing systems they act on (local project storage, the GitHub    *)
(* repository host and the Kubernetes cluster).                             *)
(***************************************************************************)
EXTENDS Integers, Sequences, FiniteSets, TLC

VARIABLES
    githubEnabled,   \* GITHUB_ENABLED (process constant, fixed by the environment)
    allowNsCreation, \* process.env.ALLOW_NAMESPACE_CREATION === 'true'
    projDir,         \* identifiers whose project directory exists under PROJECTS_DIR
    projFiles,       \* per identifier: the entries present inside the project directory
    meta,            \* per identifier: the content of scaffold-metadata.json
    repos,           \* identifiers that exist as repositories on the GitHub host
    cluster,         \* resources present in the cluster: [ns, name, kind]
    dep,             \* the deploy-stream request being served
    td,              \* the single-service cleanup request being served
    sc,              \* the scaffold request being served
    sc2,             \* a second scaffold request served beside it
    ca,              \* the cleanup-all request being served
    dl,              \* the download request being served
    ls,              \* the last list-services response
    hist             \* history: what has completed so far (observation only)

vars == <<githubEnabled, allowNsCreation, projDir, projFiles, meta, repos, cluster,
          dep, td, sc, sc2, ca, dl, ls, hist>>

envVars == <<githubEnabled, allowNsCreation>>
fsVars == <<projDir, projFiles, meta>>
bulkVars == <<ca, dl, sc2, ls>>

----------------------------------------------------------------------------
(* Bounds *)

\* number of scaffold requests and of cleanup requests served in one behaviour
MaxScaffolds == 2
MaxCleanups == 1

----------------------------------------------------------------------------
(* Identifiers and names *)

\* identifiers are character sequences, so that the validation pattern is computed
IdPool == { <<"a">>, <<"a", "-", "1">>, <<"a", "-">>, <<"A">>, <<>> }

LowerAlnum == {"a", "b", "e", "k", "m", "s", "t", "u", "y", "1"}

\* the pattern without its requirement on the last character
ValidNameOpenEnded(s) ==
    /\ Len(s) >= 1
    /\ s[1] \in LowerAlnum
    /\ \A k \in 1..Len(s) : s[k] \in LowerAlnum \cup {"-"}

\* /^[a-z0-9]([a-z0-9-]*[a-z0-9])?$/.test(s), preceded by the !s test
ValidName(s) ==
    /\ Len(s) >= 1
    /\ s[1] \in LowerAlnum
    /\ s[Len(s)] \in LowerAlnum
    /\ \A k \in 1..Len(s) : s[k] \in LowerAlnum \cup {"-"}

FORCED_TARGET_NAMESPACE == "development"

Null == "null"

\* namespace names are atoms; their characters, for the pattern test
Spelling(ns) ==
    CASE ns = "team-a"      -> <<"t", "e", "a", "m", "-", "a">>
      [] ns = "kube-system" -> <<"k", "u", "b", "e", "-", "s", "y", "s", "t", "e", "m">>
      [] ns = "Team_A"      -> <<"T", "e", "a", "m", "_", "A">>
      [] OTHER              -> <<>>

FORBIDDEN_NAMESPACES == {"kube-system", "kube-public", "kube-node-lease"}

\* !ns, the DNS-1123 pattern (the same as for identifiers) and the denylist
validateNamespace(ns) ==
    /\ ns # Null
    /\ ValidName(Spelling(ns))
    /\ ns \notin FORBIDDEN_NAMESPACES

\* entries of a project directory that the handlers look at
K8sDir == "k8s"
MetaFile == "scaffold-metadata.json"
Dockerfile == "Dockerfile"
DeploymentYaml == "deployment.yaml"
ServiceYaml == "service.yaml"
SecretYaml == "postgres-secret.yaml"
PgServiceYaml == "postgres-service.yaml"
StatefulSetYaml == "postgres-statefulset.yaml"
SourceFiles == "src"
MigrationFiles == "db/migration"
CatalogFiles == "catalog-info.yaml"
GitDir == ".git"

FileNames == {K8sDir, MetaFile, Dockerfile, DeploymentYaml, ServiceYaml, SecretYaml,
              PgServiceYaml, StatefulSetYaml, SourceFiles, MigrationFiles, CatalogFiles,
              GitDir}

\* the fields of the record written at creation (initialMeta)
MetaFields == {"namespace", "owner", "description", "lifecycle", "createdAt", "port",
               "javaVersion"}

NoMeta == [state |-> "absent", namespace |-> Null, fields |-> {}]

\* the cluster resources a manifest creates (the statefulset's volumeClaimTemplates
\* bring the volume claim with it)
KindsOf(file) ==
    CASE file = SecretYaml -> {"secret"}
      [] file = PgServiceYaml -> {"pg-service"}
      [] file = StatefulSetYaml -> {"statefulset", "pvc"}
      [] file = DeploymentYaml -> {"deployment"}
      [] file = ServiceYaml -> {"service"}
      [] OTHER -> {}


----------------------------------------------------------------------------
(* Progress events of a deployment stream: the keys of the JSON object      *)
(* handed to sendEvent, and which message it is                             *)

LogEv == [keys |-> {"log"}, msg |-> "log"]
ErrorEv(m) == [keys |-> {"error"}, msg |-> m]
SuccessEv == [keys |-> {"success", "log", "serviceName", "port"}, msg |-> "complete"]

\* sendEvent: res.write of one more event; it does not look at the stream's state
sendEvent(d, ev) == [d EXCEPT !.stream = Append(@, ev)]

RECURSIVE sendLogs(_, _)
sendLogs(d, n) == IF n = 0 THEN d ELSE sendLogs(sendEvent(d, LogEv), n - 1)

\* variant: res.end() without the return that should follow it
EndStreamNoReturn(d) == [d EXCEPT !.closed = TRUE, !.closedAt = Len(d.stream)]

\* variant: the handler returns without res.end()
EndStreamLeftOpen(d) == [d EXCEPT !.pc = "done"]

\* res.end(): the stream is closed; closedAt remembers how much had been written
EndStream(d) == [d EXCEPT !.closed = TRUE, !.closedAt = Len(d.stream), !.pc = "done"]

\* variant: the error event is sent and the handler carries on
FailStreamNoEnd(d, m) == sendEvent(d, ErrorEv(m))

\* sendEvent({ error }) followed by return res.end()
FailStream(d, m) == EndStream(sendEvent(d, ErrorEv(m)))

\* one more external call made by the deploy run
Called(d, op, target, res) ==
    [d EXCEPT !.calls = Append(@, [op |-> op, target |-> target, res |-> res]),
              !.after = IF d.gone /\ @ < 2 THEN @ + 1 ELSE @]

maxPgAttempts == 30
maxAttempts == 30

\* variant: the statefulset applied before its service
postgresFilesWorkloadFirst == <<SecretYaml, StatefulSetYaml, PgServiceYaml>>

\* variant: the endpoint applied last
postgresFilesEndpointLast == <<StatefulSetYaml, SecretYaml, PgServiceYaml>>

postgresFiles == <<SecretYaml, PgServiceYaml, StatefulSetYaml>>

PodPhases == {"Pending", "Running", "Succeeded", "Failed", "Unknown"}

\* what a status query can yield: a phase, or the query throws
PollOutcomes == PodPhases \cup {"throw"}

\* pgStatus.includes('Running') / podStatus.includes('Running')
IsRunning(status) == status = "Running"

\* history: the steps of the deploy run that have been executed
Stepped(step) == [hist EXCEPT !.steps = @ \cup {step}]

DepIdle ==
    [pc |-> "idle", id |-> <<>>, status |-> 0, namespace |-> Null,
     stream |-> <<>>, closed |-> FALSE, closedAt |-> 0, i |-> 1,
     pgAttempts |-> 0, attempts |-> 0, calls |-> <<>>,
     \* whether the client has gone, and the external calls made since (up to two)
     gone |-> FALSE, after |-> 0,
     \* milliseconds slept between checks in each polling loop
     pgSlept |-> 0, podSlept |-> 0]

\* variant: an existence test that always answers yes
HasFileAlways(id, f) == TRUE

HasFile(id, f) == id \in projDir /\ f \in projFiles[id]

\* the namespace kubectl falls back on without -n: the one the scaffolder runs in
ContextNamespace == "backstage"

\* kubectl get pods / logs ${nsArg}: nsArg is empty when the record gave no namespace
QueryNs(d) == IF d.namespace # Null THEN d.namespace ELSE ContextNamespace

\* variant: manifests that carry no namespace of their own
TargetNsOfArgument(d) == IF d.namespace # Null THEN d.namespace ELSE ContextNamespace

\* nsArg: -n <namespace> when the record gave one, else the manifest's own namespace
TargetNs(d) == IF d.namespace # Null THEN d.namespace ELSE FORCED_TARGET_NAMESPACE

\* namespace = meta && meta.namespace ? meta.namespace : null; a missing or
\* unparsable record leaves null
ReadNamespace(id) ==
    IF HasFile(id, MetaFile) /\ meta[id].state = "ok" /\ meta[id].namespace # ""
    THEN meta[id].namespace ELSE Null


----------------------------------------------------------------------------
(* GET /api/deploy/:serviceName/stream                                      *)

\* request validation, project lookup, SSE set-up, the k8s directory check and
\* the read of the metadata record
DeployRequest(id) ==
    /\ dep.pc = "idle"
    /\ LET d0 == [dep EXCEPT !.id = id] IN
       IF ~ValidName(id)
       THEN dep' = [d0 EXCEPT !.status = 400, !.pc = "done"]
       ELSE IF id \notin projDir
       THEN dep' = [d0 EXCEPT !.status = 404, !.pc = "done"]
       ELSE LET d1 == sendEvent([d0 EXCEPT !.status = 200], LogEv) IN
            IF ~HasFile(id, K8sDir)
            THEN dep' = FailStream(d1, "no-k8s-directory")
            ELSE dep' = [d1 EXCEPT !.namespace = ReadNamespace(id), !.pc = "namespace"]
    /\ UNCHANGED <<envVars, bulkVars, fsVars, repos, cluster, td, sc>>
    /\ hist' = Stepped("request")

NsOutcomes == {"ok", "forbidden", "other"}

\* variant: no failure is recognised as an RBAC denial
IsRbacDenialNever(out) == FALSE

\* msg.includes('Forbidden') || msg.includes('cannot get resource')
IsRbacDenial(out) == out = "forbidden"

\* step 1: ensure the namespace exists, when one is recorded and creation is allowed
DeployNamespace(out) ==
    /\ dep.pc = "namespace"
    /\ IF dep.namespace # Null
       THEN IF allowNsCreation
            THEN LET d1 == Called(sendEvent(dep, LogEv), "ensure-namespace", dep.namespace, out) IN
                 IF out = "ok"
                 THEN dep' = [sendEvent(d1, LogEv) EXCEPT !.pc = "build"]
                 ELSE IF IsRbacDenial(out)
                 THEN dep' = [sendEvent(d1, LogEv) EXCEPT !.pc = "build"]
                 ELSE dep' = FailStream(d1, "namespace-failed")
            ELSE /\ out = "ok"
                 /\ dep' = [sendEvent(dep, LogEv) EXCEPT !.pc = "build"]
       ELSE /\ out = "ok"
            /\ dep' = [dep EXCEPT !.pc = "build"]
    /\ UNCHANGED <<envVars, bulkVars, fsVars, repos, cluster, td, sc>>
    /\ hist' = Stepped("namespace")

BuildOutcomes == {"ok", "build-failed", "load-failed"}

\* the run leaves step 2 for the applies
AfterBuild(d) == [sendEvent(d, LogEv) EXCEPT !.pc = "applyPostgres", !.i = 1]

\* variant: a failed build ends the run
OnBuildFailureFatal(d) == FailStream(d, "build-failed")

\* catch (err) { sendEvent({ log: `Docker build or image load failed: ...` }) }
OnBuildFailure(d) == AfterBuild(sendEvent(d, LogEv))

\* step 2: docker build and minikube image load when a Dockerfile exists; every
\* failure is logged and the run goes on
DeployBuild(out) ==
    /\ dep.pc = "build"
    /\ LET built == sendLogs(Called(sendLogs(dep, 2), "docker-build", dep.id, "ok"), 4)
       IN /\ (~HasFile(dep.id, Dockerfile) => out = "ok")
          /\ dep' = IF HasFile(dep.id, Dockerfile)
                    THEN CASE out = "ok" ->
                                AfterBuild(sendLogs(Called(built, "image-load", dep.id, "ok"), 2))
                           [] out = "build-failed" ->
                                OnBuildFailure(Called(sendLogs(dep, 2), "docker-build",
                                                      dep.id, "fail"))
                           [] OTHER ->
                                OnBuildFailure(Called(built, "image-load", dep.id, "fail"))
                    ELSE AfterBuild(sendEvent(dep, LogEv))
    /\ UNCHANGED <<envVars, bulkVars, fsVars, repos, cluster, td, sc>>
    /\ hist' = Stepped("build")

ApplyOutcomes == {"ok", "fail"}

\* kubectl apply -f <file>: the resource exists in the target namespace afterwards
Applied(d, file) ==
    cluster \cup {[ns |-> TargetNs(d), name |-> d.id, kind |-> k] : k \in KindsOf(file)}

\* step 3: the loop over postgresFiles; a file that does not exist is skipped, a
\* failed apply ends the run
DeployApplyPostgres(out) ==
    /\ dep.pc = "applyPostgres"
    /\ dep.i <= Len(postgresFiles)
    /\ LET file == postgresFiles[dep.i] IN
       IF HasFile(dep.id, file)
       THEN LET d1 == Called(sendEvent(dep, LogEv), "apply", file, out) IN
            IF out = "ok"
            THEN /\ dep' = [sendEvent(d1, LogEv) EXCEPT !.i = @ + 1]
                 /\ cluster' = Applied(dep, file)
            ELSE /\ dep' = FailStream(d1, "apply-failed")
                 /\ UNCHANGED cluster
       ELSE /\ out = "ok"
            /\ dep' = [dep EXCEPT !.i = @ + 1]
            /\ UNCHANGED cluster
    /\ UNCHANGED <<envVars, bulkVars, fsVars, repos, td, sc>>
    /\ hist' = Stepped("apply-postgres")

\* the readiness wait is entered when the statefulset manifest exists
DeployPostgresWait ==
    /\ dep.pc = "applyPostgres"
    /\ dep.i > Len(postgresFiles)
    /\ IF HasFile(dep.id, StatefulSetYaml)
       THEN dep' = [sendEvent(dep, LogEv) EXCEPT !.pc = "pgPoll", !.pgAttempts = 0]
       ELSE dep' = [dep EXCEPT !.pc = "applyDeployment"]
    /\ UNCHANGED <<envVars, bulkVars, fsVars, repos, cluster, td, sc>>
    /\ hist' = Stepped("postgres-wait")

\* a loop whose body is never entered
PollSkipped(n, max) == FALSE

\* while (attempts < max)
PollAgain(n, max) == n < max

\* variant: the timeout test after the loop is missing
PollNeverTimesOut(n, max) == FALSE

\* if (attempts >= max) after the loop
PollTimedOut(n, max) == n >= max

\* variant: the catch branch forgets to count the attempt
AfterFailedQueryNotCounted(n) == n

\* the attempt counter after a check that threw (the catch branch)
AfterFailedQuery(n) == n + 1

\* the attempt counter after a check that returned a phase other than Running
AfterNotRunning(n) == n + 1

\* setTimeout(resolve, 3000) after a PostgreSQL check that did not see Running
pgPollInterval == 3000

\* setTimeout(resolve, 2000) after a pod check that did not see Running
podPollInterval == 2000

\* step 4: one iteration of the PostgreSQL readiness loop
DeployPgPoll(out) ==
    /\ dep.pc = "pgPoll"
    /\ PollAgain(dep.pgAttempts, maxPgAttempts)
    /\ LET d1 == Called(dep, "get-pods", "postgres",
                        IF out # "throw" /\ IsRunning(out) THEN "Running" ELSE "other") IN
       IF out = "throw"
       THEN dep' = [sendEvent(d1, LogEv) EXCEPT !.pgAttempts = AfterFailedQuery(@),
                                                !.pgSlept = @ + pgPollInterval]
       ELSE IF IsRunning(out)
       THEN dep' = [sendLogs(d1, 2) EXCEPT !.pc = "pgSettle"]
       ELSE dep' = [sendEvent(d1, LogEv) EXCEPT !.pgAttempts = AfterNotRunning(@),
                                                !.pgSlept = @ + pgPollInterval]
    /\ UNCHANGED <<envVars, bulkVars, fsVars, repos, cluster, td, sc>>
    /\ hist' = Stepped("postgres-poll")

\* leaving the loop (break after the settle delay, or the loop condition failing)
\* and the timeout test that follows it
DeployPgAfterLoop ==
    /\ \/ dep.pc = "pgSettle"
       \/ dep.pc = "pgPoll" /\ ~PollAgain(dep.pgAttempts, maxPgAttempts)
    /\ IF PollTimedOut(dep.pgAttempts, maxPgAttempts)
       THEN dep' = FailStream(dep, "postgres-timeout")
       ELSE dep' = [dep EXCEPT !.pc = "applyDeployment"]
    /\ UNCHANGED <<envVars, bulkVars, fsVars, repos, cluster, td, sc>>
    /\ hist' = Stepped("postgres-after")

\* kubectl apply of a manifest that is not there fails
ApplyResult(id, file, out) == IF HasFile(id, file) THEN out ELSE "fail"

\* step 5a: apply deployment.yaml
DeployApplyDeployment(out) ==
    /\ dep.pc = "applyDeployment"
    /\ LET res == ApplyResult(dep.id, DeploymentYaml, out)
           d1 == Called(dep, "apply", DeploymentYaml, res) IN
       /\ res = out
       /\ IF res = "ok"
          THEN /\ dep' = [sendEvent(d1, LogEv) EXCEPT !.pc = "applyService"]
               /\ cluster' = Applied(dep, DeploymentYaml)
          ELSE /\ dep' = FailStream(d1, "deployment-failed")
               /\ UNCHANGED cluster
    /\ UNCHANGED <<envVars, bulkVars, fsVars, repos, td, sc>>
    /\ hist' = Stepped("apply-deployment")

\* step 5b: apply service.yaml
DeployApplyService(out) ==
    /\ dep.pc = "applyService"
    /\ LET res == ApplyResult(dep.id, ServiceYaml, out)
           d1 == Called(sendEvent(dep, LogEv), "apply", ServiceYaml, res) IN
       /\ res = out
       /\ IF res = "ok"
          THEN /\ dep' = [sendLogs(d1, 2) EXCEPT !.pc = "podPoll", !.attempts = 0]
               /\ cluster' = Applied(dep, ServiceYaml)
          ELSE /\ dep' = FailStream(d1, "service-failed")
               /\ UNCHANGED cluster
    /\ UNCHANGED <<envVars, bulkVars, fsVars, repos, td, sc>>
    /\ hist' = Stepped("apply-service")

\* step 6: one iteration of the pod readiness loop
DeployPodPoll(out) ==
    /\ dep.pc = "podPoll"
    /\ PollAgain(dep.attempts, maxAttempts)
    /\ LET d1 == Called(dep, "get-pods", "app",
                        IF out # "throw" /\ IsRunning(out) THEN "Running" ELSE "other") IN
       IF out = "throw"
       THEN dep' = [sendEvent(d1, LogEv) EXCEPT !.attempts = AfterFailedQuery(@),
                                                !.podSlept = @ + podPollInterval]
       ELSE IF IsRunning(out)
       THEN dep' = [sendLogs(d1, 2) EXCEPT !.pc = "podRunning"]
       ELSE dep' = [sendEvent(d1, LogEv) EXCEPT !.attempts = AfterNotRunning(@),
                                                !.podSlept = @ + podPollInterval]
    /\ UNCHANGED <<envVars, bulkVars, fsVars, repos, cluster, td, sc>>
    /\ hist' = Stepped("pod-poll")

LogFetchOutcomes == {"ok", "fail"}

\* after the loop: the timeout test, then step 7 (log tail, success event, end)
DeployFinish(out) ==
    /\ \/ dep.pc = "podRunning"
       \/ dep.pc = "podPoll" /\ ~PollAgain(dep.attempts, maxAttempts)
    /\ IF PollTimedOut(dep.attempts, maxAttempts)
       THEN /\ out = "ok"
            /\ dep' = FailStream(dep, "pod-timeout")
       ELSE dep' = EndStream(sendEvent(
                       sendEvent(Called(sendEvent(dep, LogEv), "logs", "app", out), LogEv),
                       SuccessEv))
    /\ UNCHANGED <<envVars, bulkVars, fsVars, repos, cluster, td, sc>>
    /\ hist' = Stepped("finish")

\* the client closes the connection while the run is on: the handler registers no
\* listener for it, and a write to the closed response does not throw
ClientDisconnect ==
    /\ dep.pc \notin {"idle", "done"}
    /\ ~dep.gone
    /\ dep' = [dep EXCEPT !.gone = TRUE]
    /\ UNCHANGED <<envVars, bulkVars, fsVars, repos, cluster, td, sc, hist>>

DeployStep ==
    \/ \E id \in IdPool : DeployRequest(id)
    \/ \E out \in NsOutcomes : DeployNamespace(out)
    \/ \E out \in BuildOutcomes : DeployBuild(out)
    \/ \E out \in ApplyOutcomes : DeployApplyPostgres(out)
    \/ DeployPostgresWait
    \/ \E out \in PollOutcomes : DeployPgPoll(out)
    \/ DeployPgAfterLoop
    \/ \E out \in ApplyOutcomes : DeployApplyDeployment(out)
    \/ \E out \in ApplyOutcomes : DeployApplyService(out)
    \/ \E out \in PollOutcomes : DeployPodPoll(out)
    \/ \E out \in LogFetchOutcomes : DeployFinish(out)


----------------------------------------------------------------------------
(* POST /api/scaffold                                                       *)

ScIdle ==
    [pc |-> "idle", id |-> <<>>, opts |-> [persistence |-> "none", include_docker |-> FALSE,
                                          include_k8s |-> FALSE, target_namespace |-> Null],
     status |-> 0, conflictType |-> Null, repoCheck |-> "none", repoExists |-> FALSE,
     effects |-> {}, githubRepoUrl |-> FALSE, pushed |-> FALSE]

\* the files the handler writes after the metadata record, in the order it writes them
\* (SourceFiles: pom.xml, application.properties and the Java classes; CatalogFiles:
\* catalog-info.yaml, README.md and .gitignore)
WriteList(o) ==
    <<SourceFiles>>
    \o (IF o.include_docker THEN <<Dockerfile>> ELSE <<>>)
    \o (IF o.include_k8s
        THEN <<DeploymentYaml, ServiceYaml>>
             \o (IF o.persistence = "postgresql"
                 THEN <<SecretYaml, StatefulSetYaml, PgServiceYaml>> ELSE <<>>)
        ELSE <<>>)
    \o (IF o.persistence = "postgresql" THEN <<MigrationFiles>> ELSE <<>>)
    \o <<CatalogFiles>>

\* initialMeta: the namespace is forced to 'development' whatever the request names
InitialMeta(o) ==
    [state |-> "ok", namespace |-> FORCED_TARGET_NAMESPACE, fields |-> MetaFields]

\* how the filesystem behaves during the synchronous part of the handler: whether the
\* three mkdirSync calls succeed, whether the metadata write succeeds (its failure is
\* caught), and how many of the later writes succeed before one throws
\* (enumerated: none of them, or all of them)
FsOutcomes(o) ==
    [mkdir : {"ok"}, metaw : {"ok", "absent", "corrupt"}, n : {0, Len(WriteList(o))}]
    \cup [mkdir : {"fail-first", "fail-k8s"}, metaw : {"absent"}, n : {0}]

\* the outcome named when the handler does not reach the filesystem writes
FsUntouched == [mkdir |-> "fail-first", metaw |-> "absent", n |-> 0]

\* what the synchronous part leaves in the project directory, and whether it threw
LocalResult(o, fo) ==
    IF fo.mkdir = "fail-first"
    THEN [dir |-> FALSE, files |-> {}, meta |-> NoMeta, threw |-> TRUE]
    ELSE IF fo.mkdir = "fail-k8s"
    THEN [dir |-> TRUE, files |-> {}, meta |-> NoMeta, threw |-> TRUE]
    ELSE [dir |-> TRUE,
          files |-> {K8sDir}
                    \cup (IF fo.metaw = "absent" THEN {} ELSE {MetaFile})
                    \cup {WriteList(o)[k] : k \in 1..fo.n},
          meta |-> CASE fo.metaw = "ok" -> InitialMeta(o)
                     [] fo.metaw = "corrupt" -> [NoMeta EXCEPT !.state = "corrupt"]
                     [] OTHER -> NoMeta,
          threw |-> fo.n < Len(WriteList(o))]

\* variant: the repository check always answers false
checkGitHubRepoExistsNever(out) == FALSE

\* checkGitHubRepoExists: true when gh repo view succeeds, false on every failure
checkGitHubRepoExists(out) == githubEnabled /\ out = "found"

\* variant: the local-directory check is missing
LocalConflictNever(id) == FALSE

\* fs.existsSync(projectDir)
LocalConflict(id) == id \in projDir

\* what gh repo view can answer for an identifier
RepoViewOutcomes(id) == IF id \in repos THEN {"found", "error"} ELSE {"not-found", "error"}

\* from the local-directory check to the end of the synchronous file generation
ScaffoldLocal(s, fo) ==
    IF LocalConflict(s.id)
    THEN /\ sc' = [s EXCEPT !.status = 409, !.conflictType = "local_directory", !.pc = "done"]
         /\ UNCHANGED fsVars
    ELSE LET r == LocalResult(s.opts, fo) IN
         /\ projDir' = IF r.dir THEN projDir \cup {s.id} ELSE projDir
         /\ projFiles' = [projFiles EXCEPT ![s.id] = r.files]
         /\ meta' = [meta EXCEPT ![s.id] = r.meta]
         /\ sc' = IF r.threw
                  THEN [s EXCEPT !.status = 500, !.pc = "done",
                                 !.effects = IF r.dir THEN @ \cup {"files"} ELSE @]
                  ELSE IF githubEnabled
                  THEN [s EXCEPT !.pc = "createRepo", !.effects = @ \cup {"files"}]
                  ELSE [s EXCEPT !.status = 200, !.pc = "done", !.effects = @ \cup {"files"}]

\* bookkeeping when a scaffold request has been answered: the identifier counts as
\* created unless a cleanup removed the project while the request was being served
Answered(h, s) ==
    IF s.pc = "done" /\ s.status = 200 /\ ~h.tornDown
    THEN [h EXCEPT !.created = @ \cup {s.id}]
    ELSE h

\* arrival of a request: validation, then either the repository check is started
\* (GitHub enabled) or the handler runs straight through the local part
ScaffoldRequest(id, o, fo) ==
    /\ sc.pc \in {"idle", "done"}
    /\ hist.scaffolds < MaxScaffolds
    /\ (~ValidName(id) \/ githubEnabled \/ LocalConflict(id)) => fo = FsUntouched
    /\ LET s == [ScIdle EXCEPT !.id = id, !.opts = o]
           h == [hist EXCEPT !.scaffolds = @ + 1, !.priorCreated = id \in hist.created,
                             !.tornDown = FALSE, !.dirThere = LocalConflict(id)] IN
       IF ~ValidName(id)
       THEN /\ sc' = [s EXCEPT !.status = 400, !.pc = "done"]
            /\ hist' = h
            /\ UNCHANGED fsVars
       ELSE IF githubEnabled
       THEN /\ sc' = [s EXCEPT !.pc = "checkRepo"]
            /\ hist' = h
            /\ UNCHANGED fsVars
       ELSE /\ ScaffoldLocal(s, fo)
            /\ hist' = Answered(h, sc')
    /\ UNCHANGED <<envVars, bulkVars, repos, cluster, dep, td>>

\* the repository check has answered: conflict, or on through the local part
ScaffoldAfterCheck(out, fo) ==
    /\ sc.pc = "checkRepo"
    /\ out \in RepoViewOutcomes(sc.id)
    /\ (checkGitHubRepoExists(out) \/ LocalConflict(sc.id)) => fo = FsUntouched
    /\ LET s == [sc EXCEPT !.repoCheck = out, !.repoExists = checkGitHubRepoExists(out)] IN
       IF s.repoExists
       THEN /\ sc' = [s EXCEPT !.status = 409, !.conflictType = "github_repo", !.pc = "done"]
            /\ UNCHANGED fsVars
       ELSE ScaffoldLocal(s, fo)
    /\ hist' = Answered([hist EXCEPT !.dirThere = LocalConflict(sc.id)], sc')
    /\ UNCHANGED <<envVars, bulkVars, repos, cluster, dep, td>>

\* gh repo create has answered; on success the push follows at once; every failure
\* is caught and the request is answered with success all the same
ScaffoldAfterCreate(created, pushed) ==
    /\ sc.pc = "createRepo"
    /\ (sc.id \in repos => ~created)
    /\ (~created => ~pushed)
    \* git init / add / commit / push run in the project directory
    /\ (sc.id \notin projDir => ~pushed)
    /\ repos' = IF created THEN repos \cup {sc.id} ELSE repos
    /\ projFiles' = IF created /\ sc.id \in projDir
                    THEN [projFiles EXCEPT ![sc.id] = @ \cup {GitDir}] ELSE projFiles
    /\ sc' = [sc EXCEPT !.status = 200, !.pc = "done", !.githubRepoUrl = created, !.pushed = pushed,
                        !.effects = IF created THEN @ \cup {"repo"} ELSE @]
    /\ hist' = Answered(hist, sc')
    /\ UNCHANGED <<envVars, bulkVars, projDir, meta, cluster, dep, td>>

\* a second POST /api/scaffold served by the same process while the first is being
\* served: the same handler, on its own request
OtherScaffoldLocal(s, fo) ==
    IF LocalConflict(s.id)
    THEN /\ sc2' = [s EXCEPT !.status = 409, !.conflictType = "local_directory", !.pc = "done"]
         /\ UNCHANGED fsVars
    ELSE LET r == LocalResult(s.opts, fo) IN
         /\ projDir' = IF r.dir THEN projDir \cup {s.id} ELSE projDir
         /\ projFiles' = [projFiles EXCEPT ![s.id] = r.files]
         /\ meta' = [meta EXCEPT ![s.id] = r.meta]
         /\ sc2' = IF r.threw
                   THEN [s EXCEPT !.status = 500, !.pc = "done",
                                  !.effects = IF r.dir THEN @ \cup {"files"} ELSE @]
                   ELSE IF githubEnabled
                   THEN [s EXCEPT !.pc = "createRepo", !.effects = @ \cup {"files"}]
                   ELSE [s EXCEPT !.status = 200, !.pc = "done", !.effects = @ \cup {"files"}]

OtherScaffoldRequest(id, o, fo) ==
    /\ sc2.pc = "idle"
    /\ (~ValidName(id) \/ githubEnabled \/ LocalConflict(id)) => fo = FsUntouched
    /\ LET s == [ScIdle EXCEPT !.id = id, !.opts = o] IN
       IF ~ValidName(id)
       THEN /\ sc2' = [s EXCEPT !.status = 400, !.pc = "done"]
            /\ UNCHANGED fsVars
       ELSE IF githubEnabled
       THEN /\ sc2' = [s EXCEPT !.pc = "checkRepo"]
            /\ UNCHANGED fsVars
       ELSE OtherScaffoldLocal(s, fo)
    /\ UNCHANGED <<envVars, ca, dl, repos, cluster, dep, td, sc, ls, hist>>

OtherScaffoldAfterCheck(out, fo) ==
    /\ sc2.pc = "checkRepo"
    /\ out \in RepoViewOutcomes(sc2.id)
    /\ (checkGitHubRepoExists(out) \/ LocalConflict(sc2.id)) => fo = FsUntouched
    /\ LET s == [sc2 EXCEPT !.repoCheck = out, !.repoExists = checkGitHubRepoExists(out)] IN
       IF s.repoExists
       THEN /\ sc2' = [s EXCEPT !.status = 409, !.conflictType = "github_repo", !.pc = "done"]
            /\ UNCHANGED fsVars
       ELSE OtherScaffoldLocal(s, fo)
    /\ UNCHANGED <<envVars, ca, dl, repos, cluster, dep, td, sc, ls, hist>>

OtherScaffoldAfterCreate(created, pushed) ==
    /\ sc2.pc = "createRepo"
    /\ (sc2.id \in repos => ~created)
    /\ (~created => ~pushed)
    /\ (sc2.id \notin projDir => ~pushed)
    /\ repos' = IF created THEN repos \cup {sc2.id} ELSE repos
    /\ projFiles' = IF created /\ sc2.id \in projDir
                    THEN [projFiles EXCEPT ![sc2.id] = @ \cup {GitDir}] ELSE projFiles
    /\ sc2' = [sc2 EXCEPT !.status = 200, !.pc = "done", !.githubRepoUrl = created,
                          !.pushed = pushed,
                          !.effects = IF created THEN @ \cup {"repo"} ELSE @]
    /\ UNCHANGED <<envVars, ca, dl, projDir, meta, cluster, dep, td, sc, ls, hist>>

\* the requests enumerated: two shapes of project, with and without a namespace named
PgK8s == [persistence |-> "postgresql", include_docker |-> FALSE, include_k8s |-> TRUE,
          target_namespace |-> Null]
PgK8sDocker == [PgK8s EXCEPT !.include_docker = TRUE]
PlainK8sDocker == [PgK8sDocker EXCEPT !.persistence = "none"]
PlainK8s == [PgK8s EXCEPT !.persistence = "none"]
PlainNoK8s == [PlainK8s EXCEPT !.include_k8s = FALSE]

ScaffoldOptions ==
    {[o EXCEPT !.target_namespace = ns] :
        o \in {PgK8sDocker, PlainNoK8s}, ns \in {Null, "team-a"}}
    \cup {[PgK8sDocker EXCEPT !.target_namespace = "kube-system"],
          [PlainNoK8s EXCEPT !.target_namespace = "Team_A"]}

\* the identifiers scaffold and cleanup requests name: one valid, one not
RequestIds == {<<"a">>, <<"a", "-">>}

ScaffoldStep ==
    \/ \E id \in RequestIds, o \in ScaffoldOptions :
          \E fo \in FsOutcomes(o) : ScaffoldRequest(id, o, fo)
    \/ \E out \in {"found", "not-found", "error"} :
          \E fo \in FsOutcomes(sc.opts) : ScaffoldAfterCheck(out, fo)
    \/ \E created \in BOOLEAN, pushed \in BOOLEAN : ScaffoldAfterCreate(created, pushed)


----------------------------------------------------------------------------
(* DELETE /api/cleanup/:serviceName                                         *)

NoResults ==
    [github |-> [deleted |-> FALSE, error |-> FALSE],
     kubernetes |-> [deployment |-> FALSE, service |-> FALSE,
                     postgres |-> [statefulset |-> FALSE, service |-> FALSE,
                                   secret |-> FALSE, pvc |-> FALSE],
                     error |-> FALSE],
     localStorage |-> [deleted |-> FALSE, error |-> FALSE]]

TdIdle ==
    [pc |-> "idle", id |-> <<>>, status |-> 0, ns |-> Null, record |-> Null,
     results |-> NoResults, calls |-> <<>>]

\* whether the thing a delete is aimed at is there when the delete is issued
Present(t, target) ==
    CASE target = "github" -> t.id \in repos
      [] target = "local"  -> t.id \in projDir
      [] OTHER -> [ns |-> t.ns, name |-> t.id, kind |-> target] \in cluster

\* one more delete attempted by the cleanup
Tried(t, target, res) ==
    [t EXCEPT !.calls = Append(@, [target |-> target, res |-> res, ns |-> t.ns,
                                   present |-> Present(t, target)])]

DeleteOutcomes == {"ok", "fail"}

\* kubectl delete <kind> ... -n <ns> --ignore-not-found=true, when it succeeds
Removed(t, kind) == cluster \ {[ns |-> t.ns, name |-> t.id, kind |-> kind]}

\* where the handler goes when a delete inside the kubernetes block throws: the
\* deployment and service deletes are guarded only by the block's own try
AfterMainDeleteFailure(next) == "local"

\* each PostgreSQL delete has its own try: the next delete follows
AfterPostgresDeleteFailure(next) == next

CleanupRequest(id) ==
    /\ td.pc \in {"idle", "done"}
    /\ hist.cleanups < MaxCleanups
    /\ LET t == [TdIdle EXCEPT !.id = id] IN
       IF ~ValidName(id)
       THEN td' = [t EXCEPT !.status = 400, !.pc = "done"]
       ELSE td' = [t EXCEPT !.pc = IF githubEnabled THEN "github" ELSE "readMeta"]
    /\ hist' = [hist EXCEPT !.cleanups = @ + 1]
    /\ UNCHANGED <<envVars, bulkVars, fsVars, repos, cluster, dep, sc>>

\* gh repo delete: it fails when the repository does not exist
CleanupGithub(out) ==
    /\ td.pc = "github"
    /\ (td.id \notin repos => out = "fail")
    /\ repos' = IF out = "ok" THEN repos \ {td.id} ELSE repos
    /\ td' = [Tried(td, "github", out) EXCEPT
                 !.results.github.deleted = (out = "ok"),
                 !.results.github.error = (out # "ok"),
                 !.pc = "readMeta"]
    /\ UNCHANGED <<envVars, bulkVars, fsVars, cluster, dep, sc, hist>>

\* the namespace argument: the record's namespace, 'development' when there is no
\* record; an unparsable record throws out of the kubernetes block
CleanupReadMeta ==
    /\ td.pc = "readMeta"
    /\ IF HasFile(td.id, MetaFile)
       THEN IF meta[td.id].state = "ok"
            THEN td' = [td EXCEPT !.ns = meta[td.id].namespace, !.record = "read",
                                  !.pc = "deployment"]
            ELSE td' = [td EXCEPT !.results.kubernetes.error = TRUE,
                                  !.record = "unparsable", !.pc = "local"]
       ELSE td' = [td EXCEPT !.ns = "development", !.record = "missing",
                             !.pc = "deployment"]
    /\ UNCHANGED <<envVars, bulkVars, fsVars, repos, cluster, dep, sc, hist>>

CleanupDeployment(out) ==
    /\ td.pc = "deployment"
    /\ cluster' = IF out = "ok" THEN Removed(td, "deployment") ELSE cluster
    /\ td' = IF out = "ok"
             THEN [Tried(td, "deployment", out) EXCEPT
                      !.results.kubernetes.deployment = TRUE, !.pc = "service"]
             ELSE [Tried(td, "deployment", out) EXCEPT
                      !.results.kubernetes.error = TRUE,
                      !.pc = AfterMainDeleteFailure("service")]
    /\ UNCHANGED <<envVars, bulkVars, fsVars, repos, dep, sc, hist>>

CleanupService(out) ==
    /\ td.pc = "service"
    /\ cluster' = IF out = "ok" THEN Removed(td, "service") ELSE cluster
    /\ td' = IF out = "ok"
             THEN [Tried(td, "service", out) EXCEPT
                      !.results.kubernetes.service = TRUE, !.pc = "statefulset"]
             ELSE [Tried(td, "service", out) EXCEPT
                      !.results.kubernetes.error = TRUE,
                      !.pc = AfterMainDeleteFailure("statefulset")]
    /\ UNCHANGED <<envVars, bulkVars, fsVars, repos, dep, sc, hist>>

CleanupStatefulset(out) ==
    /\ td.pc = "statefulset"
    /\ cluster' = IF out = "ok" THEN Removed(td, "statefulset") ELSE cluster
    /\ td' = IF out = "ok"
             THEN [Tried(td, "statefulset", out) EXCEPT
                      !.results.kubernetes.postgres.statefulset = TRUE, !.pc = "pg-service"]
             ELSE [Tried(td, "statefulset", out) EXCEPT
                      !.pc = AfterPostgresDeleteFailure("pg-service")]
    /\ UNCHANGED <<envVars, bulkVars, fsVars, repos, dep, sc, hist>>

CleanupPgService(out) ==
    /\ td.pc = "pg-service"
    /\ cluster' = IF out = "ok" THEN Removed(td, "pg-service") ELSE cluster
    /\ td' = IF out = "ok"
             THEN [Tried(td, "pg-service", out) EXCEPT
                      !.results.kubernetes.postgres.service = TRUE, !.pc = "secret"]
             ELSE [Tried(td, "pg-service", out) EXCEPT
                      !.pc = AfterPostgresDeleteFailure("secret")]
    /\ UNCHANGED <<envVars, bulkVars, fsVars, repos, dep, sc, hist>>

CleanupSecret(out) ==
    /\ td.pc = "secret"
    /\ cluster' = IF out = "ok" THEN Removed(td, "secret") ELSE cluster
    /\ td' = IF out = "ok"
             THEN [Tried(td, "secret", out) EXCEPT
                      !.results.kubernetes.postgres.secret = TRUE, !.pc = "pvc"]
             ELSE [Tried(td, "secret", out) EXCEPT
                      !.pc = AfterPostgresDeleteFailure("pvc")]
    /\ UNCHANGED <<envVars, bulkVars, fsVars, repos, dep, sc, hist>>

CleanupPvc(out) ==
    /\ td.pc = "pvc"
    /\ cluster' = IF out = "ok" THEN Removed(td, "pvc") ELSE cluster
    /\ td' = IF out = "ok"
             THEN [Tried(td, "pvc", out) EXCEPT
                      !.results.kubernetes.postgres.pvc = TRUE, !.pc = "local"]
             ELSE [Tried(td, "pvc", out) EXCEPT
                      !.pc = AfterPostgresDeleteFailure("local")]
    /\ UNCHANGED <<envVars, bulkVars, fsVars, repos, dep, sc, hist>>

\* a response that fails as soon as the results hold an error
CleanupStatusStrict(results) ==
    IF results.github.error \/ results.kubernetes.error THEN 500 ELSE 200

\* res.json({ success: true, message, details: results }): whatever the results hold
CleanupStatus(results) == 200

\* the local project directory is removed when it exists; a failing rmSync reaches
\* the handler's outer catch
CleanupLocal(out) ==
    /\ td.pc = "local"
    /\ IF td.id \in projDir
       THEN IF out = "ok"
            THEN /\ projDir' = projDir \ {td.id}
                 /\ projFiles' = [projFiles EXCEPT ![td.id] = {}]
                 /\ meta' = [meta EXCEPT ![td.id] = NoMeta]
                 /\ td' = [Tried(td, "local", out) EXCEPT
                              !.results.localStorage.deleted = TRUE,
                              !.status = CleanupStatus(td.results), !.pc = "done"]
                 /\ hist' = [hist EXCEPT !.created = @ \ {td.id},
                                         !.tornDown = @ \/ (sc.id = td.id /\ sc.pc \notin {"idle", "done"})]
            ELSE /\ td' = [Tried(td, "local", out) EXCEPT !.status = 500, !.pc = "done"]
                 /\ UNCHANGED <<fsVars, hist>>
       ELSE /\ out = "ok"
            /\ td' = [td EXCEPT !.status = CleanupStatus(td.results), !.pc = "done"]
            /\ UNCHANGED <<fsVars, hist>>
    /\ UNCHANGED <<envVars, bulkVars, repos, cluster, dep, sc>>

CleanupStep ==
    \/ \E id \in IdPool : CleanupRequest(id)
    \/ \E out \in DeleteOutcomes : CleanupGithub(out)
    \/ CleanupReadMeta
    \/ \E out \in DeleteOutcomes : CleanupDeployment(out)
    \/ \E out \in DeleteOutcomes : CleanupService(out)
    \/ \E out \in DeleteOutcomes : CleanupStatefulset(out)
    \/ \E out \in DeleteOutcomes : CleanupPgService(out)
    \/ \E out \in DeleteOutcomes : CleanupSecret(out)
    \/ \E out \in DeleteOutcomes : CleanupPvc(out)
    \/ \E out \in DeleteOutcomes : CleanupLocal(out)


----------------------------------------------------------------------------
(* DELETE /api/cleanup-all                                                  *)

NoBulkResults ==
    [servicesFound |-> <<>>,
     github |-> [deleted |-> {}, errors |-> {}],
     kubernetes |-> [deleted |-> {}, postgres |-> [deleted |-> {}, errors |-> {}],
                     errors |-> {}],
     localStorage |-> [deleted |-> {}, errors |-> {}]]

CaIdle ==
    [pc |-> "idle", i |-> 0, id |-> <<>>, ns |-> Null, j |-> 0, pgDeleted |-> FALSE,
     status |-> 0, results |-> NoBulkResults, calls |-> <<>>]

\* the PostgreSQL resources of one service, in the order they are deleted
pgResources == <<"statefulset", "pg-service", "secret", "pvc">>

\* the orders in which readdirSync may list the project directories
Listings ==
    {q \in [1..Cardinality(projDir) -> projDir] :
        \A x, y \in 1..Len(q) : x # y => q[x] # q[y]}

\* one more operation of the cleanup-all on the service it is processing
TriedAll(c, target, res) ==
    [c EXCEPT !.calls = Append(@, [service |-> c.id, target |-> target, res |-> res,
                                   ns |-> c.ns])]

\* the first step on a service: its repository when GitHub is enabled
FirstStep == IF githubEnabled THEN "github" ELSE "readMeta"

\* after the local delete of service i: the next service, or the response
NextService(c) ==
    IF c.i < Len(c.results.servicesFound)
    THEN [c EXCEPT !.i = @ + 1, !.id = c.results.servicesFound[c.i + 1],
                   !.ns = Null, !.j = 0, !.pgDeleted = FALSE, !.pc = FirstStep]
    ELSE [c EXCEPT !.status = 200, !.pc = "done"]

\* a failure on one service stopping the whole run
FailedServiceAborts(c, next) == [c EXCEPT !.status = 500, !.pc = "done"]

\* a delete of one service throws: its own try/catch takes it and the run goes on
\* with what follows that block
FailedService(c, next) == [c EXCEPT !.pc = next]

CleanupAllRequest ==
    /\ ca.pc = "idle"
    /\ \E q \in Listings :
          LET c == [ca EXCEPT !.results.servicesFound = q] IN
          ca' = NextService(c)
    /\ UNCHANGED <<envVars, fsVars, repos, cluster, dep, td, sc, sc2, dl, ls, hist>>

CleanupAllGithub(out) ==
    /\ ca.pc = "github"
    /\ (ca.id \notin repos => out = "fail")
    /\ repos' = IF out = "ok" THEN repos \ {ca.id} ELSE repos
    /\ ca' = IF out = "ok"
             THEN [TriedAll(ca, "github", out) EXCEPT
                      !.results.github.deleted = @ \cup {ca.id}, !.pc = "readMeta"]
             ELSE FailedService([TriedAll(ca, "github", out) EXCEPT
                                    !.results.github.errors = @ \cup {ca.id}],
                                "readMeta")
    /\ UNCHANGED <<envVars, fsVars, cluster, dep, td, sc, sc2, dl, ls, hist>>

CleanupAllReadMeta ==
    /\ ca.pc = "readMeta"
    /\ IF HasFile(ca.id, MetaFile)
       THEN IF meta[ca.id].state = "ok"
            THEN ca' = [TriedAll(ca, "read-record", "ok") EXCEPT
                           !.ns = meta[ca.id].namespace, !.pc = "deployment"]
            ELSE ca' = FailedService([TriedAll(ca, "read-record", "fail") EXCEPT
                                         !.results.kubernetes.errors = @ \cup {ca.id}],
                                     "local")
       ELSE ca' = [TriedAll(ca, "read-record", "missing") EXCEPT
                      !.ns = "development", !.pc = "deployment"]
    /\ UNCHANGED <<envVars, fsVars, repos, cluster, dep, td, sc, sc2, dl, ls, hist>>

CleanupAllDeployment(out) ==
    /\ ca.pc = "deployment"
    /\ cluster' = IF out = "ok" THEN Removed(ca, "deployment") ELSE cluster
    /\ ca' = IF out = "ok"
             THEN [TriedAll(ca, "deployment", out) EXCEPT !.pc = "service"]
             ELSE FailedService([TriedAll(ca, "deployment", out) EXCEPT
                                    !.results.kubernetes.errors = @ \cup {ca.id}],
                                "local")
    /\ UNCHANGED <<envVars, fsVars, repos, dep, td, sc, sc2, dl, ls, hist>>

CleanupAllService(out) ==
    /\ ca.pc = "service"
    /\ cluster' = IF out = "ok" THEN Removed(ca, "service") ELSE cluster
    /\ ca' = IF out = "ok"
             THEN [TriedAll(ca, "service", out) EXCEPT
                      !.results.kubernetes.deleted = @ \cup {ca.id},
                      !.j = 1, !.pgDeleted = FALSE, !.pc = "pg"]
             ELSE FailedService([TriedAll(ca, "service", out) EXCEPT
                                    !.results.kubernetes.errors = @ \cup {ca.id}],
                                "local")
    /\ UNCHANGED <<envVars, fsVars, repos, dep, td, sc, sc2, dl, ls, hist>>

\* one turn of the loop over pgResources; a failing delete is skipped
CleanupAllPostgres(out) ==
    /\ ca.pc = "pg"
    /\ LET kind == pgResources[ca.j]
           c == [TriedAll(ca, kind, out) EXCEPT !.pgDeleted = @ \/ (out = "ok")]
       IN
       /\ cluster' = IF out = "ok" THEN Removed(ca, kind) ELSE cluster
       /\ ca' = IF ca.j < Len(pgResources)
                THEN [c EXCEPT !.j = @ + 1]
                ELSE [c EXCEPT !.results.kubernetes.postgres.deleted =
                                  IF c.pgDeleted THEN @ \cup {ca.id} ELSE @,
                               !.pc = "local"]
    /\ UNCHANGED <<envVars, fsVars, repos, dep, td, sc, sc2, dl, ls, hist>>

CleanupAllLocal(out) ==
    /\ ca.pc = "local"
    /\ IF out = "ok"
       THEN /\ projDir' = projDir \ {ca.id}
            /\ projFiles' = [projFiles EXCEPT ![ca.id] = {}]
            /\ meta' = [meta EXCEPT ![ca.id] = NoMeta]
            /\ ca' = NextService([TriedAll(ca, "local", out) EXCEPT
                                     !.results.localStorage.deleted = @ \cup {ca.id}])
       ELSE /\ ca' = LET c == [TriedAll(ca, "local", out) EXCEPT
                                  !.results.localStorage.errors = @ \cup {ca.id}]
                     IN FailedService(NextService(c), NextService(c).pc)
            /\ UNCHANGED fsVars
    /\ UNCHANGED <<envVars, repos, cluster, dep, td, sc, sc2, dl, ls, hist>>

CleanupAllStep ==
    \/ CleanupAllRequest
    \/ \E out \in DeleteOutcomes : CleanupAllGithub(out)
    \/ CleanupAllReadMeta
    \/ \E out \in DeleteOutcomes : CleanupAllDeployment(out)
    \/ \E out \in DeleteOutcomes : CleanupAllService(out)
    \/ \E out \in DeleteOutcomes : CleanupAllPostgres(out)
    \/ \E out \in DeleteOutcomes : CleanupAllLocal(out)


----------------------------------------------------------------------------
(* GET /download/:serviceName                                               *)

DlIdle == [pc |-> "idle", id |-> <<>>, status |-> 0, ops |-> {}, archive |-> FALSE]

\* validation, existence test and the tar of the project into /tmp
Download(id, out) ==
    /\ dl.pc \in {"idle", "done"}
    /\ LET d == [DlIdle EXCEPT !.id = id] IN
       IF ~ValidName(id)
       THEN /\ out = "ok"
            /\ dl' = [d EXCEPT !.status = 400, !.pc = "done"]
       ELSE IF id \notin projDir
       THEN /\ out = "ok"
            /\ dl' = [d EXCEPT !.status = 404, !.ops = {"exists"}, !.pc = "done"]
       ELSE IF out = "ok"
       THEN dl' = [d EXCEPT !.ops = {"exists", "tar"}, !.archive = TRUE, !.pc = "sending"]
       ELSE dl' = [d EXCEPT !.ops = {"exists", "tar"}, !.status = 500, !.pc = "done"]
    /\ UNCHANGED <<envVars, fsVars, repos, cluster, dep, td, sc, sc2, ca, ls, hist>>

\* the callback of res.download: the temporary archive is removed
DownloadSent ==
    /\ dl.pc = "sending"
    /\ dl' = [dl EXCEPT !.archive = FALSE, !.status = 200, !.pc = "done"]
    /\ UNCHANGED <<envVars, fsVars, repos, cluster, dep, td, sc, sc2, ca, ls, hist>>

DownloadStep ==
    \/ \E id \in IdPool, out \in {"ok", "fail"} : Download(id, out)
    \/ DownloadSent


----------------------------------------------------------------------------
(* GET /api/list-services                                                   *)

LsIdle == [status |-> 0, services |-> {}]

\* what the list shows for a project whose record gives no namespace
ListedDefault == "default"

\* metadata = {} unless the record is there and parses
ListedMeta(id) == IF HasFile(id, MetaFile) /\ meta[id].state = "ok" THEN meta[id] ELSE NoMeta

\* nsArg of the kubectl get deployment: the record's namespace, else none
ListQueryNs(id) ==
    IF ListedMeta(id).namespace # Null THEN ListedMeta(id).namespace ELSE ContextNamespace

\* one entry of the list
Listed(id, reachable) ==
    [name |-> id,
     namespace |-> IF ListedMeta(id).namespace # Null THEN ListedMeta(id).namespace
                   ELSE ListedDefault,
     queried |-> ListQueryNs(id),
     hasK8s |-> reachable /\ [ns |-> ListQueryNs(id), name |-> id, kind |-> "deployment"] \in cluster,
     hasGit |-> githubEnabled /\ id \in repos]

\* the handler runs from end to end without an await: it reads the projects
\* directory, each record, and asks the cluster and the host about each project
ListServices(reachable) ==
    /\ ls' = [status |-> 200, services |-> {Listed(id, reachable) : id \in projDir}]
    /\ UNCHANGED <<envVars, fsVars, repos, cluster, dep, td, sc, sc2, ca, dl, hist>>

ListServicesStep == \E reachable \in BOOLEAN : ListServices(reachable)


----------------------------------------------------------------------------
(* Specifications *)

HistInit == [scaffolds |-> 0, cleanups |-> 0, created |-> {}, priorCreated |-> FALSE,
             tornDown |-> FALSE, dirThere |-> FALSE, steps |-> {}]

\* the service after start-up: an empty projects directory; repositories may exist
\* on the host from an earlier life of the service
Init ==
    /\ githubEnabled \in BOOLEAN
    /\ allowNsCreation = FALSE
    /\ projDir = {}
    /\ projFiles = [id \in IdPool |-> {}]
    /\ meta = [id \in IdPool |-> NoMeta]
    /\ repos \in {{}, {<<"a">>}}
    /\ cluster = {}
    /\ dep = DepIdle
    /\ td = TdIdle
    /\ sc = ScIdle
    /\ sc2 = ScIdle
    /\ ca = CaIdle
    /\ dl = DlIdle
    /\ ls = LsIdle
    /\ hist = HistInit

\* cleanup requests while nothing is deployed: the cluster is reachable and every
\* kubectl delete succeeds on the resource that is not there
CleanupOfUndeployed ==
    \/ \E id \in RequestIds : CleanupRequest(id)
    \/ \E out \in DeleteOutcomes : CleanupGithub(out)
    \/ CleanupReadMeta
    \/ CleanupDeployment("ok")
    \/ CleanupService("ok")
    \/ CleanupStatefulset("ok")
    \/ CleanupPgService("ok")
    \/ CleanupSecret("ok")
    \/ CleanupPvc("ok")
    \/ \E out \in DeleteOutcomes : CleanupLocal(out)

Next == ScaffoldStep \/ CleanupOfUndeployed

Spec == Init /\ [][Next]_vars

\* projects as scaffold requests leave them, for the deploy and cleanup runs
AllWritten(o, metaw) == [mkdir |-> "ok", metaw |-> metaw, n |-> Len(WriteList(o))]

DeployScenarios ==
    { LocalResult(PgK8sDocker, AllWritten(PgK8sDocker, "ok")),
      LocalResult(PgK8s, AllWritten(PgK8s, "absent")),
      \* the write of postgres-service.yaml failed (it is written after the statefulset)
      LocalResult(PgK8s, [mkdir |-> "ok", metaw |-> "ok", n |-> 5]),
      LocalResult(PlainK8sDocker, AllWritten(PlainK8sDocker, "ok")),
      LocalResult(PlainK8s, AllWritten(PlainK8s, "corrupt")),
      LocalResult(PlainNoK8s, AllWritten(PlainNoK8s, "ok")),
      LocalResult(PlainK8s, [mkdir |-> "fail-k8s", metaw |-> "absent", n |-> 0]) }

ProjectInit(r) ==
    /\ projDir = {<<"a">>}
    /\ projFiles = [id \in IdPool |-> IF id = <<"a">> THEN r.files ELSE {}]
    /\ meta = [id \in IdPool |-> IF id = <<"a">> THEN r.meta ELSE NoMeta]

DeployInit ==
    /\ githubEnabled = FALSE
    /\ allowNsCreation \in BOOLEAN
    /\ \E r \in DeployScenarios : ProjectInit(r)
    /\ repos = {}
    /\ cluster = {}
    /\ dep = DepIdle
    /\ td = TdIdle
    /\ sc = ScIdle
    /\ sc2 = ScIdle
    /\ ca = CaIdle
    /\ dl = DlIdle
    /\ ls = LsIdle
    /\ hist = HistInit

SpecDeploy == DeployInit /\ [][DeployStep]_vars

\* the same runs, each external call returning and each timer firing: a run that
\* can take a step eventually takes one
SpecDeployLive == DeployInit /\ [][DeployStep]_vars /\ WF_vars(DeployStep)

\* two scaffold requests for one identifier served side by side: each handler runs
\* from one await to the next (the repository check, the repository creation)
\* without the other getting in between
TwoScaffolds ==
    \/ \E fo \in FsOutcomes(PgK8sDocker) : ScaffoldRequest(<<"a">>, PgK8sDocker, fo)
    \/ \E out \in {"found", "not-found", "error"} :
          \E fo \in FsOutcomes(sc.opts) : ScaffoldAfterCheck(out, fo)
    \/ \E created \in BOOLEAN, pushed \in BOOLEAN : ScaffoldAfterCreate(created, pushed)
    \/ \E fo \in FsOutcomes(PlainNoK8s) : OtherScaffoldRequest(<<"a">>, PlainNoK8s, fo)
    \/ \E out \in {"found", "not-found", "error"} :
          \E fo \in FsOutcomes(sc2.opts) : OtherScaffoldAfterCheck(out, fo)
    \/ \E created \in BOOLEAN, pushed \in BOOLEAN : OtherScaffoldAfterCreate(created, pushed)

SpecTwoScaffolds == Init /\ [][TwoScaffolds]_vars

\* the deploy handler is suspended only in the sleeps of its two polling loops
\* (await new Promise(resolve => setTimeout(...))); everything else it does runs
\* to the next sleep without another handler getting in between
DeploySuspended ==
    \/ dep.pc \in {"idle", "done"}
    \/ dep.pc = "pgSettle"
    \/ dep.pc = "pgPoll" /\ dep.pgAttempts > 0
    \/ dep.pc = "podPoll" /\ dep.attempts > 0

RaceScenarios ==
    { LocalResult(PgK8sDocker, AllWritten(PgK8sDocker, "ok")),
      LocalResult(PlainK8s, AllWritten(PlainK8s, "ok")) }

RaceInit ==
    /\ githubEnabled = FALSE
    /\ allowNsCreation = FALSE
    /\ \E r \in RaceScenarios : ProjectInit(r)
    /\ repos = {}
    /\ cluster = {}
    /\ dep = DepIdle
    /\ td = TdIdle
    /\ sc = ScIdle
    /\ sc2 = ScIdle
    /\ ca = CaIdle
    /\ dl = DlIdle
    /\ ls = LsIdle
    /\ hist = HistInit

\* a teardown request handled by the same process as a deploy: each await
\* execAsync of the teardown lets the deploy go on, and the teardown goes on
\* while the deploy sleeps; the cluster is reachable and every delete succeeds
TeardownBesideDeploy ==
    \/ \E id \in {<<"a">>} : CleanupRequest(id)
    \/ CleanupReadMeta
    \/ CleanupDeployment("ok")
    \/ CleanupService("ok")
    \/ CleanupStatefulset("ok")
    \/ CleanupPgService("ok")
    \/ CleanupSecret("ok")
    \/ CleanupPvc("ok")
    \/ CleanupLocal("ok")

\* the deploy beside it: the cluster is reachable, the build and every apply of a
\* manifest that is still there succeed
DeployBesideTeardown ==
    \/ \E id \in {<<"a">>} : DeployRequest(id)
    \/ DeployNamespace("ok")
    \/ DeployBuild("ok")
    \/ \E out \in ApplyOutcomes : DeployApplyPostgres(out)
    \/ DeployPostgresWait
    \/ \E out \in PollOutcomes : DeployPgPoll(out)
    \/ DeployPgAfterLoop
    \/ \E out \in ApplyOutcomes : DeployApplyDeployment(out)
    \/ \E out \in ApplyOutcomes : DeployApplyService(out)
    \/ \E out \in PollOutcomes : DeployPodPoll(out)
    \/ DeployFinish("ok")

SpecRace ==
    RaceInit /\ [][DeployBesideTeardown \/ (DeploySuspended /\ TeardownBesideDeploy)]_vars

\* a deploy of a complete project whose client may go away at any moment
WatchedInit ==
    /\ githubEnabled = FALSE
    /\ allowNsCreation \in BOOLEAN
    /\ ProjectInit(LocalResult(PgK8sDocker, AllWritten(PgK8sDocker, "ok")))
    /\ repos = {}
    /\ cluster = {}
    /\ dep = DepIdle
    /\ td = TdIdle
    /\ sc = ScIdle
    /\ sc2 = ScIdle
    /\ ca = CaIdle
    /\ dl = DlIdle
    /\ ls = LsIdle
    /\ hist = HistInit

SpecDeployWatched == WatchedInit /\ [][DeployStep \/ ClientDisconnect]_vars

\* a cleanup of a project that has been deployed into 'development' (or of one that
\* never was, or whose record is missing or unparsable)
DeployedResources ==
    {[ns |-> FORCED_TARGET_NAMESPACE, name |-> <<"a">>, kind |-> k] :
        k \in {"deployment", "service", "statefulset", "pg-service", "secret", "pvc"}}

CleanupScenarios ==
    { LocalResult(PgK8sDocker, AllWritten(PgK8sDocker, "ok")),
      LocalResult(PgK8s, AllWritten(PgK8s, "absent")),
      LocalResult(PlainK8s, AllWritten(PlainK8s, "corrupt")) }

CleanupInit ==
    /\ githubEnabled \in BOOLEAN
    /\ allowNsCreation = FALSE
    /\ \E r \in CleanupScenarios : ProjectInit(r)
    /\ repos = IF githubEnabled THEN {<<"a">>} ELSE {}
    /\ cluster = DeployedResources
    /\ dep = DepIdle
    /\ td = TdIdle
    /\ sc = ScIdle
    /\ sc2 = ScIdle
    /\ ca = CaIdle
    /\ dl = DlIdle
    /\ ls = LsIdle
    /\ hist = HistInit

SpecCleanup == CleanupInit /\ [][CleanupStep]_vars

\* a cleanup-all over two deployed projects; the second one may lack its record or
\* hold an unparsable one, and has no repository on the host
BulkProjects == {<<"a">>, <<"a", "-", "1">>}

BulkResources ==
    {[ns |-> FORCED_TARGET_NAMESPACE, name |-> id, kind |-> k] :
        id \in BulkProjects,
        k \in {"deployment", "service", "statefulset", "pg-service", "secret", "pvc"}}

CleanupAllInit ==
    /\ githubEnabled \in BOOLEAN
    /\ allowNsCreation = FALSE
    /\ projDir = BulkProjects
    /\ \E r \in CleanupScenarios :
          LET full == LocalResult(PgK8sDocker, AllWritten(PgK8sDocker, "ok")) IN
          /\ projFiles = [id \in IdPool |-> IF id = <<"a">> THEN full.files
                                            ELSE IF id \in BulkProjects THEN r.files
                                            ELSE {}]
          /\ meta = [id \in IdPool |-> IF id = <<"a">> THEN full.meta
                                       ELSE IF id \in BulkProjects THEN r.meta
                                       ELSE NoMeta]
    /\ repos = IF githubEnabled THEN {<<"a">>} ELSE {}
    /\ cluster = BulkResources
    /\ dep = DepIdle
    /\ td = TdIdle
    /\ sc = ScIdle
    /\ sc2 = ScIdle
    /\ ca = CaIdle
    /\ dl = DlIdle
    /\ ls = LsIdle
    /\ hist = HistInit

SpecCleanupAll == CleanupAllInit /\ [][CleanupAllStep]_vars

\* requests of the four kinds arriving, with any identifier of the pool, at a
\* service that holds one deployed project: each handler is followed from its
\* entry to its first suspension (or to its response, when it has none before)
ArrivalInit ==
    /\ githubEnabled \in BOOLEAN
    /\ allowNsCreation = FALSE
    /\ ProjectInit(LocalResult(PgK8sDocker, AllWritten(PgK8sDocker, "ok")))
    /\ repos = IF githubEnabled THEN {<<"a">>} ELSE {}
    /\ cluster = DeployedResources
    /\ dep = DepIdle
    /\ td = TdIdle
    /\ sc = ScIdle
    /\ sc2 = ScIdle
    /\ ca = CaIdle
    /\ dl = DlIdle
    /\ ls = LsIdle
    /\ hist = HistInit

Arrival ==
    \/ \E id \in IdPool, o \in {PgK8sDocker} :
          \E fo \in FsOutcomes(o) : ScaffoldRequest(id, o, fo)
    \/ \E id \in IdPool : DeployRequest(id)
    \/ \E id \in IdPool : CleanupRequest(id)
    \/ DownloadStep

SpecArrival == ArrivalInit /\ [][Arrival]_vars


\* every operation on one deployed project, side by side: a deploy whose pods are
\* running at the first look, a download, a listing, scaffold requests naming the
\* project or an invalid identifier, and a teardown, on a reachable cluster and a
\* filesystem without faults; the other handlers run while the deploy sleeps
DeployHealthy ==
    \/ DeployRequest(<<"a">>)
    \/ DeployNamespace("ok")
    \/ DeployBuild("ok")
    \/ DeployApplyPostgres("ok")
    \/ DeployPostgresWait
    \/ DeployPgPoll("Running")
    \/ DeployPgAfterLoop
    \/ DeployApplyDeployment("ok")
    \/ DeployApplyService("ok")
    \/ DeployPodPoll("Running")
    \/ DeployFinish("ok")

\* the filesystem takes every write of a scaffold request
WritesSucceed(o) == {AllWritten(o, "ok"), FsUntouched}

BesideDeploy ==
    \/ \E id \in RequestIds, fo \in WritesSucceed(PlainNoK8s) :
          ScaffoldRequest(id, PlainNoK8s, fo)
    \/ \E out \in {"found", "not-found", "error"} :
          \E fo \in WritesSucceed(sc.opts) : ScaffoldAfterCheck(out, fo)
    \/ \E created \in BOOLEAN : ScaffoldAfterCreate(created, created)
    \/ Download(<<"a">>, "ok")
    \/ DownloadSent
    \/ ListServices(TRUE)
    \/ CleanupRequest(<<"a">>)
    \/ CleanupGithub("ok")
    \/ CleanupReadMeta
    \/ CleanupDeployment("ok")
    \/ CleanupService("ok")
    \/ CleanupStatefulset("ok")
    \/ CleanupPgService("ok")
    \/ CleanupSecret("ok")
    \/ CleanupPvc("ok")
    \/ CleanupLocal("ok")

SpecAllOperations ==
    ArrivalInit /\ [][DeployHealthy \/ (DeploySuspended /\ BesideDeploy)]_vars


\* a deploy and a teardown of one project, whatever the state of its record: the
\* pods are running at the first look and every delete succeeds
PlacementInit ==
    /\ githubEnabled = FALSE
    /\ allowNsCreation \in BOOLEAN
    /\ \E r \in DeployScenarios : ProjectInit(r)
    /\ repos = {}
    /\ cluster = {}
    /\ dep = DepIdle
    /\ td = TdIdle
    /\ sc = ScIdle
    /\ sc2 = ScIdle
    /\ ca = CaIdle
    /\ dl = DlIdle
    /\ ls = LsIdle
    /\ hist = HistInit

SpecPlacement ==
    PlacementInit /\ [][DeployHealthy \/ (DeploySuspended /\ TeardownBesideDeploy)]_vars


----------------------------------------------------------------------------
(* Observations on a deploy run *)

CallIdx == 1..Len(dep.calls)
EventIdx == 1..Len(dep.stream)

IsApply(k, file, res) ==
    dep.calls[k].op = "apply" /\ dep.calls[k].target = file /\ dep.calls[k].res = res

IsApplyOf(k, file) == dep.calls[k].op = "apply" /\ dep.calls[k].target = file

ApplyIdx == {k \in CallIdx : dep.calls[k].op = "apply"}

IsCheck(k, target) == dep.calls[k].op = "get-pods" /\ dep.calls[k].target = target

SawRunning(k, target) == IsCheck(k, target) /\ dep.calls[k].res = "Running"

Checks(target) == Cardinality({k \in CallIdx : IsCheck(k, target)})

IsTerminal(ev) == "error" \in ev.keys \/ "success" \in ev.keys

ErrorEvents == {k \in EventIdx : "error" \in dep.stream[k].keys}

HasError(m) == \E k \in EventIdx : dep.stream[k] = ErrorEv(m)

LastEventIs(ev) == Len(dep.stream) > 0 /\ dep.stream[Len(dep.stream)] = ev

\* the position of a manifest in the order credential, stateful endpoint, stateful
\* workload, app workload, app endpoint
OrderRank(file) ==
    CASE file = SecretYaml -> 1
      [] file = PgServiceYaml -> 2
      [] file = StatefulSetYaml -> 3
      [] file = DeploymentYaml -> 4
      [] file = ServiceYaml -> 5
      [] OTHER -> 0

HasPostgresResources(id) ==
    \A f \in {SecretYaml, PgServiceYaml, StatefulSetYaml} : HasFile(id, f)

----------------------------------------------------------------------------
C5_AppAfterPostgresRunning ==
    \A k \in ApplyIdx :
       (IsApplyOf(k, DeploymentYaml) /\ HasFile(dep.id, StatefulSetYaml)) =>
          \E j \in 1..(k - 1) : SawRunning(j, "postgres")

\* the deployment was applied after several checks, the last of which saw Running
C5_Witness ==
    /\ HasFile(dep.id, StatefulSetYaml)
    /\ \E k \in CallIdx : IsApply(k, DeploymentYaml, "ok")
    /\ Checks("postgres") >= 3

(* C6: when a resource apply fails the run emits exactly one error event,   *)
(* closes the stream and makes no further external call: no apply, no       *)
(* readiness check, no log fetch, no retry of the failed apply.             *)
C6_ApplyFailureIsFatal ==
    \A k \in ApplyIdx :
       dep.calls[k].res = "fail" =>
          /\ k = Len(dep.calls)
          /\ dep.closed
          /\ dep.pc = "done"
          /\ Cardinality(ErrorEvents) = 1
          /\ IsTerminal(dep.stream[Len(dep.stream)])
          /\ "error" \in dep.stream[Len(dep.stream)].keys

\* the apply of the statefulset failed after two successful applies
C6_Witness ==
    /\ Len(dep.calls) >= 3
    /\ IsApply(Len(dep.calls), StatefulSetYaml, "fail")
    /\ dep.closed

(* C7, as claimed: step 1 never ends a run; whatever the outcome of the    *)
(* namespace ensure, the run goes on to the build step.                     *)
C7_StepOneNeverEnds ==
    "namespace" \in hist.steps =>
       /\ ~HasError("namespace-failed")
       /\ (dep.pc = "build" \/ "build" \in hist.steps)

EnsureFailedOtherwise ==
    \E k \in CallIdx : dep.calls[k].op = "ensure-namespace" /\ dep.calls[k].res = "other"

(* C7, amended: step 1 ends a run only when namespace creation is enabled,  *)
(* a namespace is recorded and the ensure call fails with an error that is  *)
(* not an RBAC denial: then one error event ends the stream and no build    *)
(* step follows. On success, on an RBAC denial, with creation disabled or   *)
(* with no namespace recorded, step 1 emits no error event and the run goes *)
(* on to the build step.                                                    *)
C7_StepOneEndsOnlyOnOtherFailure ==
    "namespace" \in hist.steps =>
       IF EnsureFailedOtherwise
       THEN /\ allowNsCreation
            /\ dep.namespace # Null
            /\ dep.closed
            /\ LastEventIs(ErrorEv("namespace-failed"))
            /\ Cardinality(ErrorEvents) = 1
            /\ "build" \notin hist.steps
       ELSE /\ ~HasError("namespace-failed")
            /\ (dep.pc = "build" \/ "build" \in hist.steps)

\* the ensure call was denied by RBAC and the build step has run
C7_Witness ==
    /\ \E k \in CallIdx : dep.calls[k].op = "ensure-namespace" /\ dep.calls[k].res = "forbidden"
    /\ "build" \in hist.steps

(* C8: each readiness loop makes at most 30 status checks; it leaves on the *)
(* first check that reports Running, or after the 30th unsuccessful check   *)
(* (a failed query counts) with a timeout error that closes the stream.     *)
C8_PollingBounded ==
    \A target \in {"postgres", "app"} :
       LET timeout == IF target = "postgres" THEN "postgres-timeout" ELSE "pod-timeout"
           polling == IF target = "postgres" THEN "pgPoll" ELSE "podPoll"
           after == IF target = "postgres" THEN "postgres-after" ELSE "finish"
           checks == {k \in CallIdx : IsCheck(k, target)}
           running == {k \in checks : SawRunning(k, target)} IN
       /\ Cardinality(checks) <= 30
       /\ \A j \in running : \A k \in checks : k <= j
       /\ HasError(timeout) =>
             /\ Cardinality(checks) = 30
             /\ running = {}
             /\ dep.closed /\ LastEventIs(ErrorEv(timeout))
       /\ (Cardinality(checks) = 30 /\ running = {} /\ after \in hist.steps)
             => HasError(timeout)
       /\ (dep.pc = polling) => running = {}

\* the pod loop timed out after thirty checks
C8_Witness ==
    /\ HasError("pod-timeout")
    /\ Checks("app") = 30
    /\ dep.closed

(* C9: no event is written after the first error or success event: a stream *)
(* carries at most one terminal event, it is the last event, and the stream *)
(* is closed with it.                                                       *)
C9_TerminalEventIsLast ==
    /\ dep.closed => Len(dep.stream) = dep.closedAt
    /\ \A k \in EventIdx :
          IsTerminal(dep.stream[k]) => (k = Len(dep.stream) /\ dep.closed)

\* a stream closed by its success event
C9_Witness ==
    /\ dep.closed
    /\ LastEventIs(SuccessEv)
    /\ Len(dep.stream) > 10


----------------------------------------------------------------------------
(* C1: a scaffold request that arrives after an earlier scaffold of the     *)
(* same identifier was answered with success (the project not having been   *)
(* torn down since) is answered 409, and from its arrival to its response   *)
(* it creates no file and no repository; a scaffold request performs no     *)
(* cluster operation at all.                                                *)
C1_RecreateConflicts ==
    /\ (hist.priorCreated /\ ~hist.tornDown) =>
          /\ sc.effects = {}
          /\ sc.pc = "done" => sc.status = 409
    /\ cluster = {}

\* the second request for an identifier has been answered with the conflict
C1_Witness ==
    /\ hist.priorCreated /\ ~hist.tornDown
    /\ hist.scaffolds = 2
    /\ sc.pc = "done" /\ sc.status = 409

(* C2: the hosted-repository check comes before the local-directory check:  *)
(* when GitHub is enabled and the check finds the repository the conflict   *)
(* kind is github_repo whether or not the local directory exists; the kind  *)
(* is local_directory exactly when the remote check reported clear (or the  *)
(* integration is disabled) and the local directory exists.                 *)
C2_RemoteBeforeLocal ==
    (sc.pc = "done" /\ ValidName(sc.id)) =>
       /\ (githubEnabled /\ sc.repoCheck = "found") =>
             (sc.status = 409 /\ sc.conflictType = "github_repo")
       /\ sc.conflictType = "github_repo" => (githubEnabled /\ sc.repoCheck = "found")
       /\ sc.conflictType = "local_directory" <=>
             (sc.repoCheck # "found" /\ hist.dirThere)
       /\ sc.status = 409 <=> sc.conflictType # Null

\* the repository and the local directory both exist: the kind is github_repo
C2_Witness ==
    /\ sc.pc = "done"
    /\ sc.conflictType = "github_repo"
    /\ hist.dirThere
    /\ sc.id \in projDir

(* C3: when GitHub is enabled and the remote existence check itself fails,  *)
(* the scaffold request surfaces an error and creates nothing.              *)
C3_RemoteFailureSurfaces ==
    (githubEnabled /\ sc.repoCheck = "error") =>
       /\ sc.effects = {}
       /\ sc.pc = "done" => sc.status = 500

(* C10: a teardown attempts a delete for every one of its targets, whether  *)
(* or not the delete of another target, or the read of the metadata record, *)
(* failed.                                                                  *)
C10_AllTargetsAttempted ==
    (td.pc = "done" /\ ValidName(td.id)) =>
       LET tried == {td.calls[k].target : k \in 1..Len(td.calls)} IN
       /\ {"deployment", "service", "statefulset", "pg-service", "secret", "pvc"}
             \subseteq tried
       /\ githubEnabled => "github" \in tried
       /\ td.id \in projDir => "local" \in tried


----------------------------------------------------------------------------
(* Observations on a cleanup run *)

TdCallIdx == 1..Len(td.calls)

ClusterKinds == {"deployment", "service", "statefulset", "pg-service", "secret", "pvc"}

\* the error the cleanup's results carry for a target
RecordedError(target) ==
    CASE target = "github" -> td.results.github.error
      [] target = "local"  -> td.results.localStorage.error
      [] OTHER -> td.results.kubernetes.error

\* C11: every delete of a cleanup that is aimed at something already absent (the
\* hosted repository, a cluster resource, the local directory) succeeds and leaves
\* no error in the results, so that a cleanup repeated right after a cleanup
\* records no error for any target.  The cluster is reachable here and holds
\* nothing, so that a failing delete has no other cause than the absence.
C11_AbsentDeleteIsSuccess ==
    \A k \in TdCallIdx :
       ~td.calls[k].present =>
          /\ td.calls[k].res = "ok"
          /\ ~RecordedError(td.calls[k].target)

\* the targets a cleanup has issued a delete for, in namespace ns
TriedIn(ns) ==
    {td.calls[k].target : k \in {j \in TdCallIdx : td.calls[j].ns = ns}}

\* C12: a cleanup aims its cluster deletes at the namespace of the project's
\* metadata record when the record is there and at 'development' when it is
\* missing; with the record missing it still attempts every cluster delete and
\* answers with success.
C12_TeardownNamespace ==
    /\ [][(td.pc = "readMeta" /\ td'.pc = "deployment") =>
             td'.ns = IF HasFile(td.id, MetaFile) THEN meta[td.id].namespace
                      ELSE "development"]_vars
    /\ [](\A k \in TdCallIdx :
             td.calls[k].target \in ClusterKinds => td.calls[k].ns = td.ns)
    /\ []((td.record = "missing" /\ td.pc \in {"local", "done"}) =>
             ClusterKinds \subseteq TriedIn("development"))
    /\ []((td.record = "missing" /\ td.pc = "done") => td.status = 200)


----------------------------------------------------------------------------
(* Observations on a cleanup-all run *)

CaCallIdx == 1..Len(ca.calls)

\* what the run has attempted on service y
TriedOn(y) == {ca.calls[k].target : k \in {j \in CaCallIdx : ca.calls[j].service = y}}

\* what has thrown on service y
FailedOn(y) ==
    {ca.calls[k].target :
        k \in {j \in CaCallIdx : ca.calls[j].service = y /\ ca.calls[j].res = "fail"}}

Found == {ca.results.servicesFound[k] : k \in 1..Len(ca.results.servicesFound)}

\* C13: in a cleanup-all over the enumerated projects, whatever throws on one
\* project, every project still gets its repository delete (GitHub enabled), its
\* cluster deletes and its local delete attempted, and the run answers; the
\* cluster deletes of a project are all attempted when none of that project's
\* own record read, deployment delete and service delete threw.
C13_BulkGoesOn ==
    ca.pc = "done" =>
       /\ ca.status = 200
       /\ Found = BulkProjects
       /\ \A y \in Found :
             /\ githubEnabled => "github" \in TriedOn(y)
             /\ "read-record" \in TriedOn(y)
             /\ "local" \in TriedOn(y)
             /\ "read-record" \notin FailedOn(y) => "deployment" \in TriedOn(y)
             /\ FailedOn(y) \cap {"read-record", "deployment", "service"} = {} =>
                   ClusterKinds \subseteq TriedOn(y)

\* everything that can throw on the first project threw, and the second project
\* was processed in full
C13_Witness ==
    /\ ca.pc = "done"
    /\ githubEnabled
    /\ LET x == ca.results.servicesFound[1]
           y == ca.results.servicesFound[2]
       IN /\ {"github", "deployment", "local"} \subseteq FailedOn(x)
          /\ ClusterKinds \cup {"github", "local"} \subseteq TriedOn(y)


\* C14: a deploy run executes no provisioning step (namespace ensure, image
\* build, apply, readiness poll) for a project whose metadata record is missing
\* or cannot be read.
C14_NoStepWithoutRecord ==
    (dep.pc # "idle" /\ dep.id \in projDir /\ meta[dep.id].state # "ok") =>
       dep.calls = <<>>


----------------------------------------------------------------------------
(* Observations on a scaffold request *)

NamespaceGiven == sc.opts.target_namespace # Null

\* C15: a scaffold request that names a target namespace which is malformed or
\* reserved (kube-system, kube-public, kube-node-lease) is refused with a
\* validation error and has no side effect.
C15_BadNamespaceRefused ==
    (sc.pc # "idle" /\ NamespaceGiven /\ ~validateNamespace(sc.opts.target_namespace)) =>
       /\ sc.effects = {}
       /\ sc.pc = "done" => sc.status = 400

\* C16: the namespace in the metadata record of a created project is the target
\* namespace of the request whenever the request named a valid one.
C16_RecordHasRequestedNamespace ==
    (/\ sc.pc = "done" /\ sc.status = 200
     /\ validateNamespace(sc.opts.target_namespace)
     /\ meta[sc.id].state = "ok") =>
       meta[sc.id].namespace = sc.opts.target_namespace


----------------------------------------------------------------------------
(* Observations on arriving requests *)

\* the identifiers of the pool that are empty or do not match
\* ^[a-z0-9]([a-z0-9-]*[a-z0-9])?$ : empty, upper case, trailing hyphen
Malformed == {<<>>, <<"A">>, <<"a", "-">>}

\* the handler whose request this step takes in names an invalid identifier
InvalidArrives ==
    \/ sc' # sc /\ sc'.id \in Malformed
    \/ dep' # dep /\ dep'.id \in Malformed
    \/ td' # td /\ td'.id \in Malformed
    \/ dl' # dl /\ dl'.pc = "done" /\ dl.pc # "sending" /\ dl'.id \in Malformed

\* C17: a scaffold, deploy, download or cleanup request whose identifier is empty
\* or does not match the pattern is answered 400 at once, without any filesystem,
\* repository or cluster operation, and leaves the projects directory, the
\* repositories and the cluster as they were.
C17_InvalidIdRejected ==
    /\ []((sc.pc # "idle" /\ sc.id \in Malformed) =>
             /\ sc.pc = "done" /\ sc.status = 400
             /\ sc.effects = {} /\ sc.repoCheck = "none")
    /\ []((dep.pc # "idle" /\ dep.id \in Malformed) =>
             /\ dep.pc = "done" /\ dep.status = 400
             /\ dep.calls = <<>> /\ dep.stream = <<>>)
    /\ []((td.pc # "idle" /\ td.id \in Malformed) =>
             td.pc = "done" /\ td.status = 400 /\ td.calls = <<>>)
    /\ []((dl.pc # "idle" /\ dl.id \in Malformed) =>
             dl.pc = "done" /\ dl.status = 400 /\ dl.ops = {} /\ ~dl.archive)
    /\ [][InvalidArrives => UNCHANGED <<fsVars, repos, cluster>>]_vars

\* all four handlers have refused an invalid identifier while a project, its
\* repository and its cluster resources exist
C17_Witness ==
    /\ sc.status = 400 /\ dep.status = 400 /\ td.status = 400 /\ dl.status = 400
    /\ sc.id \in Malformed /\ dep.id \in Malformed /\ td.id \in Malformed /\ dl.id \in Malformed
    /\ projDir # {} /\ cluster # {}


----------------------------------------------------------------------------
(* Observations on the end of a deploy run *)

\* the kind of an event: the fields it carries, whatever its text
Kind(ev) == ev.keys

HasSuccess == \E k \in EventIdx : "success" \in Kind(dep.stream[k])

\* the pod loop used up its attempts
AppNeverRan == dep.pc = "done" /\ dep.attempts >= maxAttempts

\* C18: when the app pod is never seen Running within the bound, the stream ends
\* with an error event of a timeout kind, which differs in kind (not only in its
\* text) from the error event of a rejected apply, and carries no success event.
C18_TimeoutIsTagged ==
    AppNeverRan =>
       /\ ~HasSuccess
       /\ dep.stream # <<>>
       /\ "error" \in Kind(dep.stream[Len(dep.stream)])
       /\ Kind(dep.stream[Len(dep.stream)]) # Kind(ErrorEv("apply-failed"))

LogFetchFailed == \E k \in CallIdx : dep.calls[k].op = "logs" /\ dep.calls[k].res = "fail"

\* C19: a success event is emitted only in a run in which every apply that was
\* attempted succeeded, deployment.yaml and service.yaml among them, the
\* PostgreSQL poll (when postgres-statefulset.yaml exists) and the pod poll each
\* saw phase Running; and a failing fetch of the log tail does not keep the
\* success event from being emitted.
C19_SuccessOnlyAfterAll ==
    /\ HasSuccess =>
          /\ \A k \in ApplyIdx : dep.calls[k].res = "ok"
          /\ \E k \in ApplyIdx : IsApply(k, DeploymentYaml, "ok")
          /\ \E k \in ApplyIdx : IsApply(k, ServiceYaml, "ok")
          /\ HasFile(dep.id, StatefulSetYaml) => \E k \in CallIdx : SawRunning(k, "postgres")
          /\ \E k \in CallIdx : SawRunning(k, "app")
          /\ ErrorEvents = {}
    /\ LogFetchFailed => HasSuccess

\* a run with PostgreSQL that ended in success although the log tail could not
\* be fetched
C19_Witness ==
    /\ HasSuccess
    /\ LogFetchFailed
    /\ HasFile(dep.id, StatefulSetYaml)
    /\ dep.closed


----------------------------------------------------------------------------
(* Observations on the results of a cleanup *)

\* what the results of the cleanup say about a cluster resource
Reported(kind) ==
    CASE kind = "deployment"  -> td.results.kubernetes.deployment
      [] kind = "service"     -> td.results.kubernetes.service
      [] kind = "statefulset" -> td.results.kubernetes.postgres.statefulset
      [] kind = "pg-service"  -> td.results.kubernetes.postgres.service
      [] kind = "secret"      -> td.results.kubernetes.postgres.secret
      [] kind = "pvc"         -> td.results.kubernetes.postgres.pvc

\* what they say for a resource this call deleted, and for one it failed to delete
ReportedWhenDeleted == TRUE
ReportedWhenFailed == FALSE

\* C20: a cleanup of a project whose cluster resources are already gone completes
\* without an exception and reports, for each such resource, an outcome that marks
\* it as already absent: one that is neither the outcome of a resource deleted
\* by this call nor the outcome of a failed delete.
C20_AbsentIsMarked ==
    td.pc = "done" =>
       \A k \in TdCallIdx :
          (td.calls[k].target \in ClusterKinds /\ ~td.calls[k].present
              /\ td.calls[k].res = "ok") =>
                /\ ~td.results.kubernetes.error
                /\ Reported(td.calls[k].target) \notin {ReportedWhenDeleted, ReportedWhenFailed}

\* the deletes of the cleanup that threw
TdFailed == {td.calls[k].target : k \in {j \in TdCallIdx : td.calls[j].res = "fail"}}

\* C21: a single cleanup answers with failure only when an exception escapes the
\* per-target handling (the removal of the local directory, which has none);
\* whenever every error was taken by a target's own handling, whatever deletes
\* failed, it answers with success and carries the per-target results.
C21_FailureOnlyOnEscape ==
    (td.pc = "done" /\ td.id \notin Malformed) =>
       /\ td.status \in {200, 500}
       /\ td.status = 500 <=> "local" \in TdFailed
       /\ "github" \in TdFailed => td.results.github.error
       /\ TdFailed \cap {"deployment", "service"} # {} => td.results.kubernetes.error
       /\ td.record = "unparsable" => td.results.kubernetes.error

\* the repository delete and the deployment delete both failed and the cleanup
\* answered with success
C21_Witness ==
    /\ td.pc = "done"
    /\ td.status = 200
    /\ {"github", "deployment"} \subseteq TdFailed
    /\ td.results.github.error /\ td.results.kubernetes.error
    /\ td.results.localStorage.deleted


----------------------------------------------------------------------------
(* Observations on the results of a cleanup-all *)

\* the delete calls of each subsystem
SubsystemCalls ==
    [github |-> {"github"},
     main |-> {"deployment", "service"},
     postgres |-> {"statefulset", "pg-service", "secret", "pvc"},
     local |-> {"local"}]

\* the projects the results report as deleted, and as failed, for a subsystem
ReportedDeleted ==
    [github |-> ca.results.github.deleted,
     main |-> ca.results.kubernetes.deleted,
     postgres |-> ca.results.kubernetes.postgres.deleted,
     local |-> ca.results.localStorage.deleted]

ReportedErrors ==
    [github |-> ca.results.github.errors,
     main |-> ca.results.kubernetes.errors,
     postgres |-> ca.results.kubernetes.postgres.errors,
     local |-> ca.results.localStorage.errors]

\* the delete calls on project y that succeeded
SucceededOn(y) ==
    {ca.calls[k].target :
        k \in {j \in CaCallIdx : ca.calls[j].service = y /\ ca.calls[j].res = "ok"}}

\* C22: the response of a cleanup-all accounts for every enumerated project, and
\* what it reports is what happened: a subsystem is reported as deleted for a
\* project only if all of that subsystem's delete calls for the project
\* succeeded, and every delete call that failed is recorded as an error of its
\* subsystem for the project.
C22_BulkReportIsTrue ==
    ca.pc = "done" =>
       /\ Found = BulkProjects
       /\ \A y \in Found : \A sub \in DOMAIN SubsystemCalls :
             /\ y \in ReportedDeleted[sub] => SubsystemCalls[sub] \subseteq SucceededOn(y)
             /\ FailedOn(y) \cap SubsystemCalls[sub] # {} => y \in ReportedErrors[sub]


----------------------------------------------------------------------------
(* Observations on the metadata record of a created project *)

\* the scaffold request has answered with success and its project is still there
CreatedNow == sc.pc = "done" /\ sc.status = 200 /\ sc.id \in projDir

\* C23: when a scaffold request answers with success the metadata record of the
\* project has been written (and flushed) before; a metadata write that failed
\* is not followed by a success answer.
C23_RecordWrittenBeforeSuccess ==
    CreatedNow => (HasFile(sc.id, MetaFile) /\ meta[sc.id].state = "ok")

\* C24: the metadata record written at creation holds the persistence mode the
\* request asked for ('none' or the PostgreSQL store).
C24_RecordHasPersistence ==
    (CreatedNow /\ meta[sc.id].state = "ok") => "persistence" \in meta[sc.id].fields


\* C25: once the client of a deploy stream has disconnected the run starts no
\* further step: at most the external call that was in flight at that moment is
\* still made.
C25_NoStepAfterDisconnect == dep.after <= 1


\* the tags an event may carry
Tags == {"log", "error", "success"}

\* C26: every event written to a deploy stream carries exactly one of the tags
\* log, error, success, the terminal events as well as the intermediate ones.
C26_OneTagPerEvent ==
    \A k \in EventIdx : Cardinality(Kind(dep.stream[k]) \cap Tags) = 1


----------------------------------------------------------------------------
(* Observations on the order of a PostgreSQL deploy run *)

PgCheckIdx == {k \in CallIdx : IsCheck(k, "postgres")}

\* every apply of manifest f comes before every apply of manifest g
AppliedBefore(f, g) ==
    \A j \in ApplyIdx, k \in ApplyIdx : (IsApplyOf(j, f) /\ IsApplyOf(k, g)) => j < k

\* C27 as stated: the stateful workload (statefulset) is applied before the
\* stateful endpoint (postgres service).
C27_WorkloadBeforeEndpoint == AppliedBefore(StatefulSetYaml, PgServiceYaml)

\* C27 amended: the stateful endpoint is applied before the stateful workload; the
\* sequence is credential, stateful endpoint, stateful workload, readiness wait,
\* app workload, app endpoint.
C27_EndpointBeforeWorkload ==
    /\ AppliedBefore(SecretYaml, PgServiceYaml)
    /\ AppliedBefore(PgServiceYaml, StatefulSetYaml)
    /\ AppliedBefore(SecretYaml, StatefulSetYaml)
    /\ \A c \in PgCheckIdx :
          /\ \E k \in ApplyIdx : k < c /\ IsApply(k, StatefulSetYaml, "ok")
          /\ \A k \in ApplyIdx :
                IsApplyOf(k, DeploymentYaml) \/ IsApplyOf(k, ServiceYaml) => c < k
    /\ AppliedBefore(StatefulSetYaml, DeploymentYaml)
    /\ AppliedBefore(DeploymentYaml, ServiceYaml)

\* a complete PostgreSQL run: the three store manifests, several readiness checks,
\* then the app manifests, ending in success
C27_Witness ==
    /\ HasSuccess
    /\ HasPostgresResources(dep.id)
    /\ Cardinality(PgCheckIdx) >= 2
    /\ \E k \in ApplyIdx : IsApply(k, PgServiceYaml, "ok")


----------------------------------------------------------------------------
(* Observations on the build step *)

IsBuildCall(k) == dep.calls[k].op \in {"docker-build", "image-load"}

BuildFailedRun == \E k \in CallIdx : IsBuildCall(k) /\ dep.calls[k].res = "fail"

\* C28: a failure of the image build or of the image load is not fatal: the step
\* writes log events only, no error event, and the run goes on to the applies as
\* it does after a build that succeeded or was skipped.
C28_BuildFailureNotFatal ==
    BuildFailedRun =>
       /\ dep.pc # "build"
       /\ ApplyIdx = {} =>
             /\ ~dep.closed
             /\ ErrorEvents = {}
             /\ dep.pc \in {"applyPostgres", "applyDeployment"}
       /\ dep.closed => ApplyIdx # {}
       /\ ~HasError("build-failed")

\* the image load failed and the run still ended in success
C28_Witness ==
    /\ \E k \in CallIdx : dep.calls[k].op = "image-load" /\ dep.calls[k].res = "fail"
    /\ HasSuccess
    /\ dep.closed


----------------------------------------------------------------------------
(* Observations on the namespace a deploy works in *)

IsQuery(k) == dep.calls[k].op \in {"get-pods", "logs"}

\* C29: every scaffolded project is placed in 'development': its record and its
\* manifests carry that namespace, so that a later deploy of it works on
\* 'development' only: what it applies lands there and what it queries (pod
\* phase, logs) is looked up there, never in another or a reserved namespace.
C29_OnlyDevelopment ==
    /\ \A id \in projDir :
          meta[id].state = "ok" => meta[id].namespace = FORCED_TARGET_NAMESPACE
    /\ \A r \in cluster : r.ns = FORCED_TARGET_NAMESPACE
    /\ \A k \in CallIdx :
          IsQuery(k) => (/\ QueryNs(dep) = FORCED_TARGET_NAMESPACE
                         /\ QueryNs(dep) \notin FORBIDDEN_NAMESPACES)


----------------------------------------------------------------------------
(* Observations on how a stream ends *)

TerminalEvents == {k \in EventIdx : IsTerminal(dep.stream[k])}

StreamOpened == dep.status = 200

StreamEnded ==
    /\ dep.closed
    /\ Len(dep.stream) > 0
    /\ IsTerminal(dep.stream[Len(dep.stream)])
    /\ Cardinality(TerminalEvents) = 1

\* C30: every external call returning and every timer firing, a deployment
\* stream that has been opened is eventually closed, and when it is, the last
\* event written to it is an error or a success event, the only terminal event
\* of the stream, whichever way the run went.
C30_OpenedStreamEnds == StreamOpened ~> StreamEnded

\* a stream that went through all the pod checks and was closed by the timeout
C30_Witness ==
    /\ StreamOpened
    /\ StreamEnded
    /\ dep.attempts = maxAttempts
    /\ LastEventIs(ErrorEv("pod-timeout"))


----------------------------------------------------------------------------
(* Observations on a deploy and a teardown of one identifier *)

TeardownDeletedAll ==
    /\ td.pc = "done"
    /\ td.status = 200
    /\ td.results.localStorage.deleted
    /\ \A k \in TdCallIdx : td.calls[k].res = "ok"
    /\ td.results.kubernetes.deployment
    /\ td.results.kubernetes.service
    /\ td.results.kubernetes.postgres.pvc

LeftBehind(id) == {r \in cluster : r.name = id}

\* C31: a deploy and a teardown of the same identifier having both finished,
\* the teardown with every delete done, no cluster resource of the identifier
\* remains, however the two were interleaved.
C31_NothingLeftBehind ==
    (dep.pc = "done" /\ dep.id = td.id /\ TeardownDeletedAll) => LeftBehind(td.id) = {}


----------------------------------------------------------------------------
(* Observations on the response of a scaffold request *)

\* the step in which a scaffold request is answered with success
AnsweredSuccess == sc.pc # "done" /\ sc'.pc = "done" /\ sc'.status = 200

\* C32: whatever teardown of the same identifier runs beside it, a scaffold
\* request that responds success does so while the project's local directory,
\* which holds its metadata record, exists (the write of the record itself is
\* the subject of C23).
C32_ProjectThereAtSuccess ==
    [][AnsweredSuccess => sc'.id \in projDir']_vars


----------------------------------------------------------------------------
(* Observations on two scaffold requests for one identifier *)

\* the request got past the conflict guard and created the project directory
Wrote(s) == "files" \in s.effects

SameIdentifier == sc.pc # "idle" /\ sc2.pc # "idle" /\ sc.id = sc2.id

\* the request was turned away by the conflict guard, having written nothing
TurnedAway(s) == s.status = 409 /\ ~Wrote(s)

\* the request failed in its first mkdirSync, having written nothing
FailedEmpty(s) == s.status = 500 /\ ~Wrote(s)

----------------------------------------------------------------------------
(* Observations on who changes a project's files *)

\* the step is taken by the deploy, the download or the list-services handler
ReadingStep == dep' # dep \/ dl' # dl \/ ls' # ls

\* the step answers a scaffold request with a rejection
RejectingStep == sc' # sc /\ sc'.pc = "done" /\ sc'.status \in {400, 409}

\* the step in which a teardown removes the project directory
RemovingStep(id) ==
    /\ td.pc = "local" /\ td.id = id
    /\ td'.results.localStorage.deleted

\* the creating request adds .git when it pushes the project
PushStep(id) ==
    /\ sc.pc = "createRepo" /\ sc.id = id
    /\ meta'[id] = meta[id]
    /\ projFiles'[id] = projFiles[id] \cup {GitDir}

\* C34: a project's metadata record, once written by the creating scaffold
\* request, is never rewritten: deploy, list-services, download and rejected
\* scaffold requests leave the record and every other project file as they
\* are, and the record goes only when a teardown removes the whole directory.
C34_RecordWrittenOnce ==
    [][/\ (ReadingStep \/ RejectingStep) => UNCHANGED fsVars
       /\ \A id \in projDir :
             (meta'[id] # meta[id] \/ projFiles'[id] # projFiles[id]) =>
                 \/ PushStep(id)
                 \/ /\ RemovingStep(id)
                    /\ id \notin projDir'
                    /\ projFiles'[id] = {}
                    /\ meta'[id] = NoMeta]_vars

\* the project deployed, downloaded and listed, a scaffold request naming it
\* turned away, and its record still as it was written
C34_Witness ==
    /\ dep.pc = "done" /\ dep.status = 200 /\ LastEventIs(SuccessEv)
    /\ dl.pc = "done" /\ dl.status = 200
    /\ ls.status = 200 /\ ls.services # {}
    /\ sc.pc = "done" /\ sc.status = 409
    /\ td.pc = "idle"
    /\ meta[<<"a">>] = InitialMeta(PgK8sDocker)


----------------------------------------------------------------------------
(* Observations on the preconditions of a deploy *)

NoProject == dep.pc # "idle" /\ dep.id \notin projDir

NoManifestDir == dep.pc # "idle" /\ dep.id \in projDir /\ K8sDir \notin projFiles[dep.id]

\* C35: a deploy makes no namespace, build or cluster call unless the project
\* directory and its k8s directory both exist: without the project it answers
\* not-found (or invalid name) and opens no stream; without the k8s directory
\* the stream is closed by one error event and no external call has been made.
C35_NoCallWithoutManifests ==
    /\ NoProject =>
          /\ dep.status = IF ValidName(dep.id) THEN 404 ELSE 400
          /\ dep.stream = <<>> /\ ~dep.closed
          /\ dep.calls = <<>>
    /\ NoManifestDir =>
          /\ dep.status = 200 /\ dep.closed /\ dep.pc = "done"
          /\ LastEventIs(ErrorEv("no-k8s-directory"))
          /\ Cardinality(ErrorEvents) = 1
          /\ dep.calls = <<>>

\* a project scaffolded without manifests: the stream was opened and closed by the
\* error, and nothing was called
C35_Witness ==
    /\ NoManifestDir
    /\ Dockerfile \notin projFiles[dep.id]
    /\ dep.closed
    /\ Len(dep.stream) = 2
    /\ dep.calls = <<>>


----------------------------------------------------------------------------
(* Observations on the repository a scaffold response names *)

\* C36: a scaffold response carries a hosted-repository URL only if both the
\* creation of the repository and the push of the generated code succeeded;
\* when either failed, or the integration is disabled, the response reports
\* success without a repository URL.
C36_UrlOnlyWhenPushed ==
    (sc.pc = "done" /\ sc.status = 200) =>
        (sc.githubRepoUrl <=> (githubEnabled /\ "repo" \in sc.effects /\ sc.pushed))


----------------------------------------------------------------------------
(* Observations on the two polling loops *)

\* C37: the pod readiness poll (step 6) follows the same bounded-retry policy
\* as the PostgreSQL poll (step 4): the same maximum number of attempts and
\* the same interval slept after each check that did not see Running.
C37_SamePollPolicy ==
    /\ maxAttempts = maxPgAttempts
    /\ (dep.pgAttempts > 0 /\ dep.attempts > 0) =>
          dep.podSlept * dep.pgAttempts = dep.pgSlept * dep.attempts


----------------------------------------------------------------------------
(* Observations on where a project's resources are applied and deleted *)

\* the teardown has resolved the namespace it deletes from
TeardownResolved == td.pc # "idle" /\ td.record \in {"read", "missing"}

\* a delete of the teardown that found its resource and removed it
RemovedSomething ==
    \E k \in TdCallIdx :
        /\ td.calls[k].target \in ClusterKinds
        /\ td.calls[k].present
        /\ td.calls[k].res = "ok"

\* C38: the namespace into which deploy applies a project's resources is the
\* namespace from which teardown deletes them, the record being there or not
\* (deploy then relies on the namespace in the manifests, teardown falls back
\* to 'development'): teardown never aims at another namespace than the one
\* the project's resources are in.
C38_SameNamespace ==
    TeardownResolved =>
        /\ \A r \in LeftBehind(td.id) : r.ns = td.ns
        /\ \A k \in TdCallIdx :
              td.calls[k].target \in ClusterKinds => td.calls[k].ns = td.ns

\* a project without record, deployed, and a teardown that found and removed its
\* resources
C38_Witness ==
    /\ TeardownResolved
    /\ td.record = "missing"
    /\ dep.id = td.id /\ dep.namespace = Null
    /\ \E k \in CallIdx : IsApply(k, DeploymentYaml, "ok")
    /\ RemovedSomething

====
